---- MODULE Spec2Model ----
(***************************************************************************)
(* PsiScript front end (psi_lang.py) and pulse scheduler                   *)
(* (compiler/qasm_compiler.py, compiler/pulse_compiler.py), and the gate    *)
(* backend OpenQasmCompiler with the predicate decomposer                  *)
(* parse_conjunctive_controls.                                             *)
(*                                                                         *)
(* A token is a record [ctl, body]: ctl is ";", "{" or "}" for a control   *)
(* token and "" for a clause, whose stripped text is body.  In the         *)
(* character-level specification (SpecText) a body is a sequence of        *)
(* characters; in the pipeline specification (Spec) a body is a clause     *)
(* record [head, ref, dur, decl] holding what the regular expressions of   *)
(* _parse_operation and _collect_registers read from the clause text.      *)
(* An Optional value is a sequence of length 0 (None) or 1; a register     *)
(* name that is None or empty is "" (the code only tests its truthiness).  *)
(*                                                                         *)
(* In the gate backend (SpecGate, SpecPred) a string the code matches      *)
(* against a regular expression is a sequence of lexemes (a word           *)
(* character, a space, "==", "&&", "||", a bracket), an emitted line is a  *)
(* record [guard, gate, param, args, dest, text], and a classical or       *)
(* quantum register name is a sequence of lexemes.                         *)
(***************************************************************************)
EXTENDS Integers, Sequences, FiniteSets, TLC

VARIABLES
    lines,            \* the source lines handed to _gather_statements
    lineNo,           \* number of lines the tokenizer loop has consumed
    tokens,           \* the local token list of _gather_statements
    statements,       \* the statement tree (local of parse)
    registers,        \* the register table, an insertion-ordered dict
    operations,       \* the operation list filled by _walk
    opPaths,          \* for each operation, the tree path of its statement
    walkStack,        \* the call stack of _walk, innermost frame last
    parserStatements, \* the parser object's attribute `statements` (Optional)
    scheduler,        \* the PulseScheduler object (Optional)
    schedule,         \* the PulseSchedule returned by build (Optional)
    raised,           \* the message of the exception raised, "" for none
    pc,               \* position in the pipeline
    compiler,         \* the OpenQasmCompiler object: register, num_qubits
    builder,          \* its QasmBuilder: op_lines, cregs, qregs, tmp_counter
    compiled,         \* for each operation compile() has handled, the
                      \* operation and the range of op_lines it emitted
    qasm,             \* the lines render() returned (Optional)
    predicate,        \* the predicate handed to parse_conjunctive_controls
    controls,         \* what parse_conjunctive_controls returned (Optional)
    walked,           \* what _compile_block returned for a tree (Optional)
    backend,          \* the LoggingPulseBackend object (Optional)
    run,              \* the call of PulseSimulator.run in progress or returned,
                      \* with the calls it has made on the backend (Optional)
    durationText,     \* the text handed to _parse_duration (Optional), with the
                      \* parts it is written from
    parsedDuration    \* what _parse_duration returned (Optional)

gateVars == <<compiler, builder, compiled, qasm, predicate, controls>>

replayVars == <<walked, backend, run, durationText, parsedDuration>>

vars == <<lines, lineNo, tokens, statements, registers, operations, opPaths,
          walkStack, parserStatements, scheduler, schedule, raised, pc, gateVars,
          replayVars>>

\* ------------------------------------------------------------------ bounds
MaxNodes == 3
MaxSpine == 3
MaxLines == 2
MaxLineLen == 3
MaxQubits == 6
MaxOps == 2
MaxTerms == 2
MaxRuns == 2
MaxEvents == 2
MaxSeq == 2
MaxBranches == 2

\* ------------------------------------------------------------- clause text
NoRef == [name |-> "", idx |-> <<>>]
NoClause == [head |-> "", ref |-> NoRef, dur |-> <<>>, decl |-> <<>>]

Ref(name, i) == [name |-> name, idx |-> <<i>>]
DurText(n, u) == <<[lead |-> <<n>>, unit |-> u]>>
Clause(head, ref, dur) == [head |-> head, ref |-> ref, dur |-> dur, decl |-> <<>>]
DeclClause(name, n) ==
    [head |-> "let", ref |-> NoRef, dur |-> <<>>,
     decl |-> <<[name |-> name, count |-> n]>>]

ClauseTok(c) == [ctl |-> "", body |-> c]
CtlTok(c) == [ctl |-> c, body |-> NoClause]
Stmt(text, children) == [text |-> text, children |-> children]

\* ---------------------------------------------------- _gather_statements
\* parse_block: the loop over tokens from idx on; acc is `statements`.
RECURSIVE parse_block(_, _, _)
parse_block(toks, idx, acc) ==
    IF idx > Len(toks) THEN [stmts |-> acc, idx |-> idx]
    ELSE LET token == toks[idx]
             i1 == idx + 1
         IN  IF token.ctl = ";" THEN parse_block(toks, i1, acc)
             ELSE IF token.ctl = "}" THEN [stmts |-> acc, idx |-> i1]
             ELSE LET opens == i1 <= Len(toks) /\ toks[i1].ctl = "{"
                      sub == IF opens THEN parse_block(toks, i1 + 1, <<>>)
                             ELSE [stmts |-> <<>>, idx |-> i1]
                      i2 == sub.idx
                      i3 == IF i2 <= Len(toks) /\ toks[i2].ctl = ";"
                            THEN i2 + 1 ELSE i2
                  IN  parse_block(toks, i3, Append(acc, Stmt(token, sub.stmts)))

\* the tokenizer loop of _gather_statements, on one line of characters
RECURSIVE BeforeComment(_)
\* line.split("//", 1)[0]
BeforeComment(line) ==
    IF Len(line) < 2 THEN line
    ELSE IF line[1] = "/" /\ line[2] = "/" THEN <<>>
    ELSE <<line[1]>> \o BeforeComment(Tail(line))

RECURSIVE LStrip(_)
LStrip(text) == IF text # <<>> /\ Head(text) = " " THEN LStrip(Tail(text)) ELSE text
RECURSIVE RStrip(_)
RStrip(text) ==
    IF text # <<>> /\ text[Len(text)] = " " THEN RStrip(SubSeq(text, 1, Len(text) - 1))
    ELSE text
Strip(text) == RStrip(LStrip(text))

TextTok(text) == [ctl |-> "", body |-> text]
CharTok(char) == [ctl |-> char, body |-> <<>>]
Flush(buf) == IF Strip(buf) # <<>> THEN <<TextTok(Strip(buf))>> ELSE <<>>

RECURSIVE CharLoop(_, _, _)
CharLoop(chars, buf, toks) ==
    IF chars = <<>> THEN toks \o Flush(buf)
    ELSE IF Head(chars) \in {";", "{", "}"}
    THEN CharLoop(Tail(chars), <<>>, toks \o Flush(buf) \o <<CharTok(Head(chars))>>)
    ELSE CharLoop(Tail(chars), Append(buf, Head(chars)), toks)

LineTokens(line) ==
    LET without_comment == Strip(BeforeComment(line))
    IN  IF without_comment = <<>> THEN <<>> ELSE CharLoop(without_comment, <<>>, <<>>)

\* ---------------------------------------------------- _collect_registers
DictHas(d, k) == \E i \in 1..Len(d) : d[i].name = k
DictSet(d, k, v) ==
    IF DictHas(d, k)
    THEN [i \in 1..Len(d) |-> IF d[i].name = k THEN [name |-> k, count |-> v] ELSE d[i]]
    ELSE Append(d, [name |-> k, count |-> v])

RECURSIVE DictSetAll(_, _)
DictSetAll(d, regs) ==
    IF regs = <<>> THEN d
    ELSE DictSetAll(DictSet(d, Head(regs).name, Head(regs).count), Tail(regs))

RECURSIVE _collect_registers(_, _)
_collect_registers(stmts, regs) ==
    IF stmts = <<>> THEN regs
    ELSE LET stmt == Head(stmts)
             own == DictSetAll(regs, stmt.text.body.decl)
             sub == _collect_registers(stmt.children, own)
         IN  _collect_registers(Tail(stmts), sub)

\* ------------------------------------------------------ _parse_target_ref
_parse_target_ref(value) ==
    IF value.idx # <<>> /\ value.name # "" THEN [reg |-> value.name, idx |-> value.idx]
    ELSE IF value.name # "" THEN [reg |-> value.name, idx |-> <<>>]
    ELSE [reg |-> "", idx |-> <<>>]

\* a or b, on register names ("" is falsy)
OrElse(a, b) == IF a # "" THEN a ELSE b

\* -------------------------------------------------------- _parse_operation
ALL == -1

NoUpdate == [scope |-> <<>>, analog_context |-> <<>>, default_register |-> <<>>]

PsiOperation(kind, register, targets, raw, scope) ==
    [kind |-> kind, register |-> register, targets |-> targets, raw |-> raw,
     scope |-> scope, duration |-> <<>>, metaDuration |-> <<>>, label |-> <<>>]

CtxReg(analog_context) == IF analog_context # <<>> THEN analog_context[1].reg ELSE ""
CtxIdxDropped(analog_context) == <<>>
CtxIdx(analog_context) == IF analog_context # <<>> THEN analog_context[1].idx ELSE <<>>

_parse_operation(stmt, scope, analog_context, default_register) ==
    LET c == stmt.body
        none == [op |-> <<>>, ctx |-> NoUpdate]
        only(op) == [op |-> <<op>>, ctx |-> NoUpdate]
        ambient == OrElse(CtxReg(analog_context), default_register)
    IN
    IF stmt.ctl # "" THEN none
    ELSE IF c.head = "Superpose"
    THEN only(PsiOperation("superpose", c.ref.name,
                           IF c.ref.idx = <<>> THEN <<ALL>> ELSE c.ref.idx, stmt, scope))
    ELSE IF c.head = "Phase"
    THEN only(PsiOperation("phase", c.ref.name, <<>>, stmt, scope))
    ELSE IF c.head = "Flip"
    THEN only(PsiOperation("flip", c.ref.name,
                           IF c.ref.idx = <<>> THEN <<0>> ELSE c.ref.idx, stmt, scope))
    ELSE IF c.head = "Reflect"
    THEN only(PsiOperation("reflect", c.ref.name, <<>>, stmt, scope))
    ELSE IF c.head = "Measure"
    THEN only(PsiOperation("measure", c.ref.name, c.ref.idx, stmt, scope))
    ELSE IF c.head = "Analog"
    THEN LET t == _parse_target_ref(c.ref)
             reg == OrElse(t.reg, default_register)
         IN  [op |-> <<PsiOperation("analog", reg, t.idx, stmt, "analog")>>,
              ctx |-> [scope |-> <<"analog">>,
                       analog_context |-> << <<[reg |-> reg, idx |-> t.idx]>> >>,
                       default_register |-> <<reg>>]]
    ELSE IF c.head = "Align"
    THEN [op |-> <<PsiOperation("align", default_register, <<>>, stmt, "align")>>,
          ctx |-> [NoUpdate EXCEPT !.scope = <<"align">>]]
    ELSE IF c.head = "branch"
    THEN LET label == IF c.ref = NoRef THEN [name |-> "branch", idx |-> <<>>] ELSE c.ref
             b == _parse_target_ref(label)
             reg == OrElse(b.reg, default_register)
         IN  [op |-> <<[PsiOperation("branch", reg, b.idx, stmt, scope)
                          EXCEPT !.label = <<label>>]>>,
              ctx |-> [NoUpdate EXCEPT !.default_register = <<reg>>]]
    ELSE IF c.head = "Rotate"
    THEN LET t == _parse_target_ref(c.ref)
             target_idx == IF t.idx = <<>> /\ analog_context # <<>>
                           THEN CtxIdx(analog_context) ELSE t.idx
             reg == OrElse(t.reg, ambient)
         IN  only([PsiOperation("rotate", reg, target_idx, stmt, scope)
                     EXCEPT !.duration = c.dur, !.metaDuration = c.dur])
    ELSE IF c.head = "Wait"
    THEN only([PsiOperation("wait", ambient, CtxIdx(analog_context), stmt, scope)
                 EXCEPT !.duration = c.dur, !.metaDuration = c.dur])
    ELSE IF c.head = "ShiftPhase"
    THEN only([PsiOperation("shiftphase", ambient, CtxIdx(analog_context), stmt, scope)
                 EXCEPT !.metaDuration = c.dur])
    ELSE IF c.head = "SetFreq"
    THEN only([PsiOperation("setfreq", ambient, CtxIdx(analog_context), stmt, scope)
                 EXCEPT !.metaDuration = c.dur])
    ELSE IF c.head = "Play"
    THEN only([PsiOperation("play", ambient, <<>>, stmt, scope)
                 EXCEPT !.metaDuration = c.dur])
    ELSE IF c.head = "Acquire"
    THEN only([PsiOperation("acquire", ambient, <<>>, stmt, scope)
                 EXCEPT !.duration = c.dur, !.metaDuration = c.dur])
    ELSE none

\* ctx_update.get(key, current)
CtxGet(update, current) == IF update # <<>> THEN update[1] ELSE current

\* ------------------------------------------------------------------ time
\* A time in nanoseconds is ns + fs / FS with 0 <= fs < FS, so that the
\* multipliers 1e-3 and 1e-6 of _parse_duration stay exact.
FS == 1000000
T(n) == [ns |-> n, fs |-> 0]
TNorm(n, f) == [ns |-> n + (f \div FS), fs |-> f % FS]
TAdd(a, b) == TNorm(a.ns + b.ns, a.fs + b.fs)
TSub(a, b) == TNorm(a.ns - b.ns, a.fs - b.fs)
TLess(a, b) == a.ns < b.ns \/ (a.ns = b.ns /\ a.fs < b.fs)
TMax(a, b) == IF TLess(a, b) THEN b ELSE a

\* ----------------------------------------------------------- PulseSchedule
PULSE_KINDS == {"rotate", "wait", "shiftphase", "setfreq", "play", "acquire"}

PulseEvent(kind, register, target, start_ns, duration_ns, branch, raw) ==
    [kind |-> kind, register |-> register, target |-> target, start_ns |-> start_ns,
     duration_ns |-> duration_ns, branch |-> branch, raw |-> raw]

RECURSIVE MaxEnd(_)
MaxEnd(events) ==
    IF Len(events) = 1 THEN TAdd(events[1].start_ns, events[1].duration_ns)
    ELSE TMax(TAdd(events[1].start_ns, events[1].duration_ns), MaxEnd(Tail(events)))

duration_ns(sched) == IF sched.events = <<>> THEN T(0) ELSE MaxEnd(sched.events)

\* the order of Python strings on the register names that occur
RegOrder == <<"", "branch", "q", "r", "zz">>
RegRank(r) == CHOOSE i \in 1..Len(RegOrder) : RegOrder[i] = r

\* key = (e.start_ns, e.register, e.target or -1)
TargetKey(e) == IF e.target = <<>> \/ e.target = <<0>> THEN -1 ELSE e.target[1]
KeyLess(a, b) ==
    \/ TLess(a.start_ns, b.start_ns)
    \/ /\ a.start_ns = b.start_ns
       /\ \/ RegRank(a.register) < RegRank(b.register)
          \/ /\ a.register = b.register
             /\ TargetKey(a) < TargetKey(b)

\* list.sort / sorted: a stable sort by the key
RECURSIVE InsertSorted(_, _)
InsertSorted(sorted, e) ==
    IF sorted = <<>> THEN <<e>>
    ELSE IF KeyLess(e, Head(sorted)) THEN <<e>> \o sorted
    ELSE <<Head(sorted)>> \o InsertSorted(Tail(sorted), e)

\* (mutant of SortEvents: the list as it is)
SortEventsNone(events) == events

RECURSIVE SortEvents(_)
SortEvents(events) ==
    IF events = <<>> THEN <<>>
    ELSE InsertSorted(SortEvents(SubSeq(events, 1, Len(events) - 1)), events[Len(events)])

\* ---------------------------------------------------------- PulseScheduler
UnitLower(u) ==
    IF u = "NS" THEN "ns" ELSE IF u = "US" THEN "us" ELSE IF u = "MS" THEN "ms"
    ELSE IF u = "S" THEN "s" ELSE IF u = "PS" THEN "ps" ELSE IF u = "FS" THEN "fs"
    ELSE IF u = "DT" THEN "dt" ELSE u

_split_number_unit(text) ==
    IF text.lead = <<>> THEN [value |-> 0, unit |-> "ns"]
    ELSE [value |-> text.lead[1], unit |-> UnitLower(OrElse(text.unit, "ns"))]

\* value * factor, the factor being whole nanoseconds (n) or a fraction (f / FS)
Times(value, n, f) == TNorm(value * n, value * f)

_parse_duration(text) ==
    IF text = <<>> THEN T(0)
    ELSE LET vu == _split_number_unit(text[1])
             unit == vu.unit
         IN  IF unit = "s" THEN Times(vu.value, 1000000000, 0)
             ELSE IF unit = "ms" THEN Times(vu.value, 1000000, 0)
             ELSE IF unit = "us" THEN Times(vu.value, 1000, 0)
             ELSE IF unit = "ns" THEN Times(vu.value, 1, 0)
             ELSE IF unit = "ps" THEN Times(vu.value, 0, 1000)
             ELSE IF unit = "fs" THEN Times(vu.value, 0, 1)
             ELSE IF unit = "dt" THEN Times(vu.value, 1, 0)
             ELSE Times(vu.value, 1, 0)

\* op.duration or op.metadata.get("duration")
OpDurationText(op) == IF op.duration # <<>> THEN op.duration ELSE op.metaDuration

\* (mutant of _lower_pulse_op: a filtered-out operation takes no time)
LowerPulseOpNoTime(self, op, start, branch_label) ==
    LET target == op.targets
        duration == _parse_duration(OpDurationText(op))
        include_event == self.register_filter = "" \/ op.register = self.register_filter
    IN  IF ~include_event THEN [evt |-> <<>>, delta |-> T(0)]
        ELSE [evt |-> <<PulseEvent(op.kind, op.register, target, start, duration,
                                   branch_label, op.raw)>>,
              delta |-> duration]

_lower_pulse_op(self, op, start, branch_label) ==
    LET target == op.targets
        duration == _parse_duration(OpDurationText(op))
        include_event == self.register_filter = "" \/ op.register = self.register_filter
    IN  IF ~include_event THEN [evt |-> <<>>, delta |-> duration]
        ELSE [evt |-> <<PulseEvent(op.kind, op.register, target, start, duration,
                                   branch_label, op.raw)>>,
              delta |-> duration]

RECURSIVE _compile_block(_, _, _, _, _, _, _)
RECURSIVE _compile_align(_, _, _, _, _, _)
RECURSIVE BlockLoop(_, _, _, _, _, _, _, _, _)
RECURSIVE BlockBody(_, _, _, _, _, _, _, _, _, _)
RECURSIVE AlignLoop(_, _, _, _, _, _, _, _, _)
RECURSIVE AlignBody(_, _, _, _, _, _, _, _, _, _)

\* events.extend(sub_events); time_cursor += sub_duration; continue
BlockNext(self, stmts, i, default_register, scope, analog_context, time_cursor, branch_label, events, sub) ==
    BlockLoop(self, stmts, i + 1, default_register, scope, analog_context,
              TAdd(time_cursor, sub.duration), branch_label, events \o sub.events)

\* if evt: events.append(evt); time_cursor += delta
Lowered(l) == [events |-> l.evt, duration |-> l.delta]

\* the body of the for loop of _compile_block on statement i, r being what
\* _parse_operation returned for it
BlockBody(self, stmts, i, default_register, scope, analog_context, time_cursor, branch_label, events, r) ==
    LET stmt == stmts[i]
        next_default == CtxGet(r.ctx.default_register, default_register)
        next_scope == CtxGet(r.ctx.scope, scope)
        next_analog == CtxGet(r.ctx.analog_context, analog_context)
        kind == IF r.op # <<>> THEN r.op[1].kind ELSE ""
    IN  BlockNext(self, stmts, i, default_register, scope, analog_context, time_cursor,
                  branch_label, events,
                  IF kind \in PULSE_KINDS
                  THEN Lowered(_lower_pulse_op(self, r.op[1], time_cursor, branch_label))
                  ELSE IF kind = "align"
                  THEN _compile_align(self, stmt.children, next_default, next_scope,
                                      next_analog, time_cursor)
                  ELSE IF kind = "analog" \/ stmt.children # <<>>
                  THEN _compile_block(self, stmt.children, next_default, next_scope,
                                      next_analog, time_cursor, branch_label)
                  ELSE [events |-> <<>>, duration |-> T(0)])

\* the for loop of _compile_block from statement i on
BlockLoop(self, stmts, i, default_register, scope, analog_context, time_cursor, branch_label, events) ==
    IF i > Len(stmts) THEN [events |-> events, time_cursor |-> time_cursor]
    ELSE BlockBody(self, stmts, i, default_register, scope, analog_context, time_cursor,
                   branch_label, events,
                   _parse_operation(stmts[i].text, scope, analog_context, default_register))

\* return events, time_cursor - start_time
BlockReturn(r, start_time) ==
    [events |-> r.events, duration |-> TSub(r.time_cursor, start_time)]

_compile_block(self, stmts, default_register, scope, analog_context, start_time, branch_label) ==
    BlockReturn(BlockLoop(self, stmts, 1, default_register, scope, analog_context,
                          start_time, branch_label, <<>>),
                start_time)

\* (mutant of AlignNext: each branch starts where the one before it ended)
AlignNextChained(self, branches, i, default_register, scope, analog_context, start_time, events, durations, sub) ==
    AlignLoop(self, branches, i + 1, default_register, scope, analog_context,
              TAdd(start_time, sub.duration), events \o sub.events,
              Append(durations, sub.duration))

\* events.extend(sub_events); durations.append(sub_duration)
AlignNext(self, branches, i, default_register, scope, analog_context, start_time, events, durations, sub) ==
    AlignLoop(self, branches, i + 1, default_register, scope, analog_context,
              start_time, events \o sub.events, Append(durations, sub.duration))

\* the body of the for loop of _compile_align on branch i, r being what
\* _parse_operation returned for it
AlignBody(self, branches, i, default_register, scope, analog_context, start_time, events, durations, r) ==
    LET branch_stmt == branches[i]
        branch_label == IF r.op # <<>> THEN r.op[1].label ELSE <<>>
    IN  AlignNext(self, branches, i, default_register, scope, analog_context, start_time,
                  events, durations,
                  _compile_block(self, branch_stmt.children,
                                 CtxGet(r.ctx.default_register, default_register),
                                 CtxGet(r.ctx.scope, scope),
                                 CtxGet(r.ctx.analog_context, analog_context),
                                 start_time, branch_label))

\* the for loop of _compile_align from branch i on
AlignLoop(self, branches, i, default_register, scope, analog_context, start_time, events, durations) ==
    IF i > Len(branches) THEN [events |-> events, durations |-> durations]
    ELSE AlignBody(self, branches, i, default_register, scope, analog_context, start_time,
                   events, durations,
                   _parse_operation(branches[i].text, scope, analog_context,
                                    default_register))

RECURSIVE MaxOf(_)
MaxOf(durations) ==
    IF Len(durations) = 1 THEN durations[1]
    ELSE TMax(durations[1], MaxOf(Tail(durations)))

\* block_duration = max(durations) if durations else 0.0
AlignReturn(r) ==
    [events |-> r.events,
     duration |-> IF r.durations # <<>> THEN MaxOf(r.durations) ELSE T(0)]

_compile_align(self, branches, default_register, scope, analog_context, start_time) ==
    AlignReturn(AlignLoop(self, branches, 1, default_register, scope, analog_context,
                          start_time, <<>>, <<>>))

\* ------------------------------------------------------------ the scripts
\* Rendering of a statement forest as the token list its source text gives.
RECURSIVE Render(_)
Render(stmts) ==
    IF stmts = <<>> THEN <<>>
    ELSE LET s == Head(stmts)
         IN  <<s.text>>
             \o (IF s.children # <<>>
                 THEN <<CtlTok("{")>> \o Render(s.children) \o <<CtlTok("}")>>
                 ELSE <<CtlTok(";")>>)
             \o Render(Tail(stmts))

AnalogQ1 == Clause("Analog", Ref("q", 1), <<>>)
AnalogR0 == Clause("Analog", Ref("r", 0), <<>>)
AlignC == Clause("Align", NoRef, <<>>)
BranchQ0 == Clause("branch", Ref("q", 0), <<>>)
BranchR1 == Clause("branch", Ref("r", 1), <<>>)
BlockC == Clause("Repeat", NoRef, <<>>)
RotateC == Clause("Rotate", NoRef, DurText(10, "ns"))
RotateR1 == Clause("Rotate", Ref("r", 1), DurText(10, "ns"))
WaitC == Clause("Wait", NoRef, DurText(5, "ns"))
ShiftPhaseC == Clause("ShiftPhase", NoRef, <<>>)
SetFreqC == Clause("SetFreq", NoRef, <<>>)
PlayC == Clause("Play", NoRef, <<>>)
AcquireC == Clause("Acquire", NoRef, DurText(20, "ns"))
FlipC == Clause("Flip", Ref("q", 0), <<>>)
DeclQ == DeclClause("q", 2)
DeclR == DeclClause("r", 2)

Containers == {AnalogQ1, AnalogR0, AlignC, BranchQ0, BranchR1, BlockC}
PulseClauses == {RotateC, RotateR1, WaitC, ShiftPhaseC, SetFreqC, PlayC, AcquireC}
SpineClauses == {AnalogR0, AlignC, BranchQ0, BranchR1, BlockC}
CoreClauses == {AnalogQ1, AlignC, BranchR1, BlockC, RotateC, DeclR}
TrailClauses == {RotateC}

\* all forests of exactly n statements over the clause set cs
RECURSIVE ForestsOf(_, _)
ForestsOf(n, cs) ==
    IF n = 0 THEN {<<>>}
    ELSE UNION {
        { <<Stmt(ClauseTok(c), ch)>> \o rest :
              c \in cs, ch \in ForestsOf(k - 1, cs), rest \in ForestsOf(n - k, cs) }
        : k \in 1..n }

RECURSIVE Nest(_, _)
Nest(spine, inner) ==
    IF spine = <<>> THEN inner
    ELSE <<Stmt(ClauseTok(Head(spine)), Nest(Tail(spine), inner))>>

Spines == UNION { [1..n -> SpineClauses] : n \in 1..MaxSpine }

\* a pulse or logic clause below a spine of blocks, with an optional later sibling
Chains ==
    { Nest(sp, <<Stmt(ClauseTok(l), <<>>)>>) \o tr :
        sp \in Spines, l \in PulseClauses \cup {FlipC},
        tr \in {<<>>} \cup { <<Stmt(ClauseTok(t), <<>>)>> : t \in TrailClauses } }

Bodies == (UNION { ForestsOf(n, CoreClauses) : n \in 0..MaxNodes }) \cup Chains

Prefixes == { <<>>, <<Stmt(ClauseTok(DeclQ), <<>>)>> }

Leaf(c) == Stmt(ClauseTok(c), <<>>)

\* the scripts of tests/test_pulse_compiler.py and tests/test_parser.py
TestScripts ==
    { <<Leaf(DeclClause("q", 1)),
        Stmt(ClauseTok(Clause("Analog", Ref("q", 0), <<>>)),
             <<Leaf(RotateC), Leaf(WaitC), Leaf(ShiftPhaseC), Leaf(AcquireC)>>)>>,
      <<Leaf(DeclQ),
        Stmt(ClauseTok(AlignC),
             <<Stmt(ClauseTok(BranchQ0), <<Leaf(RotateC)>>),
               Stmt(ClauseTok(Clause("branch", Ref("q", 1), <<>>)),
                    <<Leaf(Clause("Wait", NoRef, DurText(25, "ns")))>>)>>)>>,
      <<Leaf(DeclQ),
        Stmt(ClauseTok(AnalogQ1),
             <<Leaf(Clause("Rotate", NoRef, DurText(20, "ns"))), Leaf(WaitC),
               Leaf(ShiftPhaseC), Leaf(SetFreqC), Leaf(PlayC),
               Leaf(Clause("Acquire", NoRef, DurText(100, "ns")))>>)>> }

Balanced ==
    { Render(p \o b) : p \in Prefixes, b \in Bodies } \cup { Render(t) : t \in TestScripts }

\* scripts with a closing brace missing at the end, or one closing brace too many
DropLast(s) == SubSeq(s, 1, Len(s) - 1)
Unbalanced ==
    { DropLast(Render(<<Stmt(ClauseTok(DeclQ), <<>>)>> \o Nest(<<c>>, b))) :
        c \in Containers, b \in ForestsOf(1, PulseClauses) }
    \cup
    { Render(<<Stmt(ClauseTok(DeclQ), <<>>)>> \o a) \o <<CtlTok("}")>> \o Render(b) :
        a \in ForestsOf(1, CoreClauses), b \in ForestsOf(1, PulseClauses) }

RECURSIVE Depths(_, _)
\* brace depth after each token, starting from depth d
Depths(toks, d) ==
    IF toks = <<>> THEN <<>>
    ELSE LET d1 == IF Head(toks).ctl = "{" THEN d + 1
                   ELSE IF Head(toks).ctl = "}" THEN d - 1 ELSE d
         IN  <<d1>> \o Depths(Tail(toks), d1)

BracesBalance(toks) ==
    LET ds == Depths(toks, 0)
    IN  /\ \A i \in 1..Len(ds) : ds[i] >= 0
        /\ (ds = <<>> \/ ds[Len(ds)] = 0)

\* ------------------------------------------------------------------ paths
RECURSIVE StmtAt(_, _)
StmtAt(stmts, path) ==
    IF Len(path) = 1 THEN stmts[path[1]]
    ELSE StmtAt(stmts[path[1]].children, Tail(path))

\* ------------------------------------------------------------------ parse
\* one iteration of `for line in lines` of _gather_statements
TokenizeLine ==
    /\ pc = "lex"
    /\ lineNo < Len(lines)
    /\ tokens' = tokens \o LineTokens(lines[lineNo + 1])
    /\ lineNo' = lineNo + 1
    /\ UNCHANGED <<gateVars, replayVars, lines, statements, registers, operations, opPaths, walkStack,
                   parserStatements, scheduler, schedule, raised, pc>>

\* return parse_block(), once the tokenizer loop has ended
GatherStatements ==
    /\ pc = "lex"
    /\ lineNo = Len(lines)
    /\ statements' = parse_block(tokens, 1, <<>>).stmts
    /\ pc' = "gathered"
    /\ UNCHANGED <<gateVars, replayVars, lines, lineNo, tokens, registers, operations, opPaths, walkStack,
                   parserStatements, scheduler, schedule, raised>>

\* self._collect_registers(statements, registers); if not registers: raise
CollectRegisters ==
    /\ pc = "gathered"
    /\ registers' = _collect_registers(statements, <<>>)
    /\ IF registers' = <<>>
       THEN raised' = "No registers declared in the PsiScript." /\ pc' = "raised"
       ELSE raised' = raised /\ pc' = "collected"
    /\ UNCHANGED <<gateVars, replayVars, lines, lineNo, tokens, statements, operations, opPaths, walkStack,
                   parserStatements, scheduler, schedule>>

Frame(stmts, default_register, scope, analog_context, path) ==
    [stmts |-> stmts, i |-> 1, default_register |-> default_register,
     scope |-> scope, analog_context |-> analog_context, path |-> path]

\* self._walk(statements, operations, default_register=next(iter(registers)))
WalkCall ==
    /\ pc = "collected"
    /\ walkStack' = <<Frame(statements, registers[1].name, "logic", <<>>, <<>>)>>
    /\ pc' = "walking"
    /\ UNCHANGED <<gateVars, replayVars, lines, lineNo, tokens, statements, registers, operations, opPaths,
                   parserStatements, scheduler, schedule, raised>>

\* (mutants of WalkFrames: no recursion into children; the override kept for siblings)
WalkFramesFlat(stack, next_default, next_scope, next_analog) ==
    [stack EXCEPT ![Len(stack)].i = @ + 1]

WalkFramesLeaky(stack, next_default, next_scope, next_analog) ==
    LET n == Len(stack)
        f == stack[n]
        stmt == f.stmts[f.i]
        advanced == [stack EXCEPT ![n].i = f.i + 1,
                                  ![n].default_register = next_default,
                                  ![n].scope = next_scope,
                                  ![n].analog_context = next_analog]
    IN  IF stmt.children # <<>>
        THEN Append(advanced, Frame(stmt.children, next_default, next_scope,
                                    next_analog, Append(f.path, f.i)))
        ELSE advanced

\* the frames after one iteration of the loop of _walk in the innermost frame
WalkFrames(stack, next_default, next_scope, next_analog) ==
    LET n == Len(stack)
        f == stack[n]
        stmt == f.stmts[f.i]
        advanced == [stack EXCEPT ![n].i = f.i + 1]
    IN  IF stmt.children # <<>>
        THEN Append(advanced, Frame(stmt.children, next_default, next_scope,
                                    next_analog, Append(f.path, f.i)))
        ELSE advanced

\* one iteration of `for stmt in statements` in the innermost call of _walk
WalkVisit ==
    /\ pc = "walking"
    /\ walkStack # <<>>
    /\ LET f == walkStack[Len(walkStack)]
       IN  /\ f.i <= Len(f.stmts)
           /\ LET stmt == f.stmts[f.i]
                  r == _parse_operation(stmt.text, f.scope, f.analog_context,
                                        f.default_register)
                  next_default == CtxGet(r.ctx.default_register, f.default_register)
                  next_scope == CtxGet(r.ctx.scope, f.scope)
                  next_analog == CtxGet(r.ctx.analog_context, f.analog_context)
              IN  /\ operations' = operations \o r.op
                  /\ opPaths' = IF r.op # <<>> THEN Append(opPaths, Append(f.path, f.i))
                                ELSE opPaths
                  /\ walkStack' = WalkFrames(walkStack, next_default, next_scope, next_analog)
    /\ UNCHANGED <<gateVars, replayVars, lines, lineNo, tokens, statements, registers, parserStatements,
                   scheduler, schedule, raised, pc>>

\* the loop of the innermost call of _walk ends; parse returns when the outermost does
WalkReturn ==
    /\ pc = "walking"
    /\ walkStack # <<>>
    /\ LET f == walkStack[Len(walkStack)]
       IN  f.i > Len(f.stmts)
    /\ walkStack' = SubSeq(walkStack, 1, Len(walkStack) - 1)
    /\ pc' = IF Len(walkStack) = 1 THEN "parsed" ELSE pc
    /\ UNCHANGED <<gateVars, replayVars, lines, lineNo, tokens, statements, registers, operations, opPaths,
                   parserStatements, scheduler, schedule, raised>>

\* the register names a caller may hand to PulseScheduler ("" is None)
GivenRegisters == {"", "q", "zz"}

\* (mutant of SchedulerInit: the declaration check left out)
SchedulerInitUnchecked(default_register, target_register) ==
    /\ pc = "parsed"
    /\ scheduler' = <<[register_filter |-> target_register,
                       default_register |->
                           OrElse(default_register,
                                  OrElse(target_register, registers[1].name))]>>
    /\ pc' = "constructed"
    /\ UNCHANGED <<gateVars, replayVars, lines, lineNo, tokens, statements, registers, operations, opPaths,
                   walkStack, parserStatements, schedule, raised>>

\* PulseScheduler(parser, registers, default_register, target_register)
SchedulerInit(default_register, target_register) ==
    /\ pc = "parsed"
    /\ IF target_register # "" /\ ~DictHas(registers, target_register)
       THEN /\ raised' = "Register not declared."
            /\ pc' = "raised"
            /\ scheduler' = scheduler
       ELSE /\ scheduler' = <<[register_filter |-> target_register,
                               default_register |->
                                   OrElse(default_register,
                                          OrElse(target_register, registers[1].name))]>>
            /\ pc' = "constructed"
            /\ raised' = raised
    /\ UNCHANGED <<gateVars, replayVars, lines, lineNo, tokens, statements, registers, operations, opPaths,
                   walkStack, parserStatements, schedule>>

\* PulseScheduler.build(): statements = getattr(self.parser, "statements", [])
Build ==
    /\ pc = "constructed"
    /\ LET self == scheduler[1]
           stmts == CtxGet(parserStatements, <<>>)
           r == _compile_block(self, stmts, self.default_register, "logic", <<>>,
                               T(0), <<>>)
       IN  schedule' = <<[events |-> SortEvents(r.events)]>>
    /\ pc' = "built"
    /\ UNCHANGED <<gateVars, replayVars, lines, lineNo, tokens, statements, registers, operations, opPaths,
                   walkStack, parserStatements, scheduler, raised>>

\* no gate compiler has been constructed and no predicate decomposed
GateIdle ==
    /\ compiler = <<>>
    /\ builder = <<>>
    /\ compiled = <<>>
    /\ qasm = <<>>
    /\ predicate = <<>>
    /\ controls = <<>>

\* no tree has been walked by the scheduler and no simulator run started
ReplayIdle ==
    /\ walked = <<>>
    /\ backend = <<>>
    /\ run = <<>>
    /\ durationText = <<>>
    /\ parsedDuration = <<>>

Init ==
    /\ tokens \in Balanced \cup Unbalanced
    /\ lines = <<>>
    /\ lineNo = 0
    /\ statements = <<>>
    /\ registers = <<>>
    /\ operations = <<>>
    /\ opPaths = <<>>
    /\ walkStack = <<>>
    /\ parserStatements = <<>>
    /\ scheduler = <<>>
    /\ schedule = <<>>
    /\ raised = ""
    /\ ReplayIdle
    /\ pc = "lex"
    /\ GateIdle

Next ==
    \/ GatherStatements
    \/ CollectRegisters
    \/ WalkCall
    \/ WalkVisit
    \/ WalkReturn
    \/ \E dr \in {"", "q"}, tr \in GivenRegisters : SchedulerInit(dr, tr)
    \/ Build

Spec == Init /\ [][Next]_vars

\* ---------------------------------------- _gather_statements on characters
Chars == {"a", " ", ";", "{", "}", "/"}
SourceLines == UNION { [1..n -> Chars] : n \in 0..MaxLineLen }
Sources == UNION { [1..n -> SourceLines] : n \in 0..MaxLines }

InitText ==
    /\ lines \in Sources
    /\ lineNo = 0
    /\ tokens = <<>>
    /\ statements = <<>>
    /\ registers = <<>>
    /\ operations = <<>>
    /\ opPaths = <<>>
    /\ walkStack = <<>>
    /\ parserStatements = <<>>
    /\ scheduler = <<>>
    /\ schedule = <<>>
    /\ raised = ""
    /\ ReplayIdle
    /\ pc = "lex"
    /\ GateIdle

NextText ==
    \/ TokenizeLine
    \/ GatherStatements

SpecText == InitText /\ [][NextText]_vars

\* ------------------------------------------------ parse_conjunctive_controls
\* A predicate is a sequence of lexemes; None is <<>>, a string s is <<s>>.
Digits == {"0", "1", "2"}
DigitVal(d) == IF d = "0" THEN 0 ELSE IF d = "1" THEN 1 ELSE 2
\* int(text) of a run of digits
RECURSIVE IntOf(_)
IntOf(ds) == IF ds = <<>> THEN 0 ELSE 10 * IntOf(SubSeq(ds, 1, Len(ds) - 1)) + DigitVal(ds[Len(ds)])
At(s, i) == IF i \in 1..Len(s) THEN s[i] ELSE ""
\* where \s* and \d+ stop when they start at position i
RECURSIVE SkipSpaces(_, _)
SkipSpaces(s, i) == IF At(s, i) = " " THEN SkipSpaces(s, i + 1) ELSE i
RECURSIVE DigitsEnd(_, _)
DigitsEnd(s, i) == IF At(s, i) \in Digits THEN DigitsEnd(s, i + 1) ELSE i
Lower(text) == [i \in 1..Len(text) |-> IF text[i] = "TRUE" THEN "true" ELSE text[i]]

\* text.split(sep) for a one-lexeme separator; cur is the piece being read
RECURSIVE SplitOn(_, _, _)
SplitOn(text, sep, cur) ==
    IF text = <<>> THEN <<cur>>
    ELSE IF Head(text) = sep THEN <<cur>> \o SplitOn(Tail(text), sep, <<>>)
    ELSE SplitOn(Tail(text), sep, Append(cur, Head(text)))

\* re.match(rf"{register}\[(\d+)\]", term): the position after "]", 0 for no match
MatchIndexed(term, register) ==
    LET j == DigitsEnd(term, 3)
    IN  IF At(term, 1) = register /\ At(term, 2) = "[" /\ j > 3 /\ At(term, j) = "]"
        THEN j + 1 ELSE 0

\* re.match(rf"{register}\[(\d+)\]\s*==\s*([01])", term): a match at the start
\* of the term, whatever follows it
MatchEq(term, register) ==
    LET e == MatchIndexed(term, register)
        k == SkipSpaces(term, e)
        m == SkipSpaces(term, k + 1)
    IN  IF e # 0 /\ At(term, k) = "==" /\ At(term, m) \in {"0", "1"}
        THEN <<(<<IntOf(SubSeq(term, 3, e - 2)), DigitVal(At(term, m))>>)>>
        ELSE <<>>

MatchSimpleZero(term, register) ==
    LET e == MatchIndexed(term, register)
    IN  IF e # 0 /\ e = Len(term) + 1
        THEN <<(<<IntOf(SubSeq(term, 3, e - 2)), 0>>)>>
        ELSE <<>>

\* re.match(rf"{register}\[(\d+)\]$", term)
MatchSimple(term, register) ==
    LET e == MatchIndexed(term, register)
    IN  IF e # 0 /\ e = Len(term) + 1
        THEN <<(<<IntOf(SubSeq(term, 3, e - 2)), 1>>)>>
        ELSE <<>>

\* the for loop over terms; the result is <<>> for None and <<list>> otherwise
RECURSIVE TermLoop(_, _, _)
TermLoop(terms, register, acc) ==
    IF terms = <<>> THEN <<acc>>
    ELSE LET term == Head(terms)
         IN  IF Lower(term) \in {<<"true">>, <<"1">>, <<>>}
             THEN TermLoop(Tail(terms), register, acc)
             ELSE IF MatchEq(term, register) # <<>>
             THEN TermLoop(Tail(terms), register, acc \o MatchEq(term, register))
             ELSE IF MatchSimple(term, register) # <<>>
             THEN TermLoop(Tail(terms), register, acc \o MatchSimple(term, register))
             ELSE <<>>

StripAll(pieces) == [i \in 1..Len(pieces) |-> Strip(pieces[i])]

parse_conjunctive_controls(pred, register) ==
    IF pred = <<>> THEN << <<>> >>
    ELSE IF \E i \in 1..Len(pred[1]) : pred[1][i] = "||" THEN <<>>
    ELSE TermLoop(StripAll(SplitOn(pred[1], "&&", <<>>)), register, <<>>)

\* --------------------------------------------- predicates handed to the decomposer
IdxTexts == {<<"0">>, <<"1">>, <<"1", "0">>}
Spaces == {<<>>, <<" ">>}
EqText(reg, ds, s1, s2, v) == <<reg, "[">> \o ds \o <<"]">> \o s1 \o <<"==">> \o s2 \o <<v>>
BareText(reg, ds) == <<reg, "[">> \o ds \o <<"]">>
EqTerms(reg) == { EqText(reg, ds, s, s, v) : ds \in IdxTexts, s \in Spaces, v \in {"0", "1"} }
BareTerms(reg) == { BareText(reg, ds) : ds \in IdxTexts }
OtherTerms ==
    { EqText("r", <<"0">>, <<>>, <<>>, "1"), BareText("r", <<"1">>),
      EqText("q", <<"0">>, <<>>, <<>>, "1") \o <<"0">>,
      EqText("q", <<"1">>, <<" ">>, <<" ">>, "1") \o <<" ", "x">>,
      EqText("q", <<"0">>, <<>>, <<>>, "2"),
      BareText("q", <<"0">>) \o <<" ", "x">>,
      <<"x">> \o BareText("q", <<"0">>),
      <<"q", "[", "]">>, <<"x">>,
      <<"true">>, <<"TRUE">>, <<"1">>, <<>> }
Terms == EqTerms("q") \cup BareTerms("q") \cup OtherTerms

RECURSIVE Join(_, _)
Join(pieces, sep) ==
    IF Len(pieces) = 0 THEN <<>>
    ELSE IF Len(pieces) = 1 THEN pieces[1]
    ELSE pieces[1] \o sep \o Join(Tail(pieces), sep)

AndSeps == {<<"&&">>, <<" ", "&&", " ">>}
Conjunctions ==
    { Join(ts, sep) : ts \in UNION { [1..n -> Terms] : n \in 1..MaxTerms }, sep \in AndSeps }
Disjunctions ==
    { a \o <<" ", "||", " ">> \o b : a, b \in BareTerms("q") \cup {<<"x">>} }
    \cup { a \o <<"&&">> \o b \o <<"||">> : a, b \in BareTerms("q") }
    \cup { <<"||">> }
Predicates == {<<>>} \cup { <<p>> : p \in Conjunctions \cup Disjunctions }

\* one call parse_conjunctive_controls(predicate, register)
ParseControls ==
    /\ pc = "pred"
    /\ controls' = <<parse_conjunctive_controls(predicate.text, predicate.register)>>
    /\ pc' = "decomposed"
    /\ UNCHANGED <<replayVars, lines, lineNo, tokens, statements, registers, operations, opPaths,
                   walkStack, parserStatements, scheduler, schedule, raised,
                   compiler, builder, compiled, qasm, predicate>>

InitPred ==
    /\ predicate \in [text : Predicates, register : {"q"}]
    /\ pc = "pred"
    /\ lines = <<>>
    /\ lineNo = 0
    /\ tokens = <<>>
    /\ statements = <<>>
    /\ registers = <<>>
    /\ operations = <<>>
    /\ opPaths = <<>>
    /\ walkStack = <<>>
    /\ parserStatements = <<>>
    /\ scheduler = <<>>
    /\ schedule = <<>>
    /\ raised = ""
    /\ ReplayIdle
    /\ compiler = <<>>
    /\ builder = <<>>
    /\ compiled = <<>>
    /\ qasm = <<>>
    /\ controls = <<>>

NextPred == ParseControls

SpecPred == InitPred /\ [][NextPred]_vars

\* ------------------------------------------------------------ QasmBuilder
\* str(n) for the small numbers the backend formats
DecimalText == <<"0", "1", "2", "3", "4", "5", "6", "7", "8", "9">>
Str(n) == IF n \in 0..9 THEN <<DecimalText[n + 1]>>
          ELSE <<DecimalText[(n \div 10) + 1], DecimalText[(n % 10) + 1]>>

\* a qubit or bit reference name[idx]; idx = ALL names the whole register
Q(name, idx) == [reg |-> name, idx |-> idx]
Line(guard, gate, param, args, dest, text) ==
    [guard |-> guard, gate |-> gate, param |-> param, args |-> args, dest |-> dest,
     text |-> text]
Gate(gate, args) == Line(<<>>, gate, <<>>, args, <<>>, <<>>)
Comment(text) == Line(<<>>, "//", <<>>, <<>>, <<>>, text)

QasmBuilder(register, num_qubits) ==
    [reg |-> register, n |-> num_qubits, op_lines |-> <<>>, cregs |-> <<>>,
     qregs |-> <<[name |-> <<register>>, count |-> num_qubits]>>, tmp_counter |-> 0]

\* d[k] for a key the dict holds
DictGet(d, k) == d[CHOOSE i \in 1..Len(d) : d[i].name = k].count

ensure_creg(b, name, size) ==
    IF DictHas(b.cregs, name) THEN b ELSE [b EXCEPT !.cregs = DictSet(@, name, size)]

\* tmp_creg returns the name; the builder after the call is .b
tmp_creg(b, size) ==
    LET name == <<"tmp">> \o Str(b.tmp_counter)
    IN  [name |-> name,
         b |-> ensure_creg([b EXCEPT !.tmp_counter = @ + 1], name, size)]

emit(b, text) == [b EXCEPT !.op_lines = Append(@, text)]
EmitAll(b, ls) == [b EXCEPT !.op_lines = @ \o ls]

ensure_qreg(b, name, size) ==
    IF DictHas(b.qregs, name)
    THEN LET old == DictGet(b.qregs, name)
         IN  [b EXCEPT !.qregs = DictSet(@, name, IF old > size THEN old ELSE size)]
    ELSE [b EXCEPT !.qregs = DictSet(@, name, size)]

DeclLines(word, d) == [i \in 1..Len(d) |-> Gate(word, <<Q(d[i].name, d[i].count)>>)]
render(b) ==
    <<Gate("OPENQASM 2.0", <<>>), Gate("include qelib1.inc", <<>>)>>
    \o DeclLines("qreg", b.qregs) \o DeclLines("creg", b.cregs) \o b.op_lines

\* ------------------------------------------------ operations of the backend
\* register is a lexeme; predicate, when, axis, classical_target and label are
\* Optional lexeme sequences; raw is the clause text as a lexeme sequence
GateOp(kind, register, targets, raw) ==
    [kind |-> kind, register |-> register, targets |-> targets, angle |-> "0",
     predicate |-> <<>>, when |-> <<>>, axis |-> <<>>, classical_target |-> <<>>,
     measure_all |-> FALSE, raw |-> raw, label |-> <<>>]

\* ------------------------------------------------------- the when wrapper
NonWord == {"", " ", "==", "&&", "||", "[", "]", ">", "!", ".", "(", ")", ":"}
RECURSIVE WordEnd(_, _)
WordEnd(s, i) == IF At(s, i) \notin NonWord THEN WordEnd(s, i + 1) ELSE i

\* re.match(r"(\w+)\s*==\s*v", expr): group 1 as <<name>>, <<>> for no match
MatchWhen(expr, v) ==
    LET w == WordEnd(expr, 1)
        k == SkipSpaces(expr, w)
        m == SkipSpaces(expr, k + 1)
    IN  IF w > 1 /\ At(expr, k) = "==" /\ At(expr, m) = v
        THEN <<SubSeq(expr, 1, w - 1)>> ELSE <<>>

\* returns the condition (Optional [name, val]) and the builder after the call
_lower_when_condition(b, expr) ==
    LET e == Strip(expr)
        one == MatchWhen(e, "1")
        zero == MatchWhen(e, "0")
    IN  IF one # <<>>
        THEN [cond |-> <<[name |-> one[1], val |-> 1]>>,
              b |-> IF ~DictHas(b.cregs, one[1]) THEN ensure_creg(b, one[1], 1) ELSE b]
        ELSE IF zero # <<>>
        THEN [cond |-> <<[name |-> zero[1], val |-> 0]>>,
              b |-> IF ~DictHas(b.cregs, zero[1]) THEN ensure_creg(b, zero[1], 1) ELSE b]
        ELSE [cond |-> <<>>, b |-> b]

\* f"if ({cond}) {line}"
Guarded(cond, line) == [line EXCEPT !.guard = <<cond>>]

_emit_with_when(b, gate_lines, when) ==
    IF when = <<>> \/ when[1] = <<>> THEN EmitAll(b, gate_lines)
    ELSE LET r == _lower_when_condition(b, when[1])
         IN  IF r.cond = <<>>
             THEN EmitAll(emit(r.b, Comment(<<"// TODO: when guard '">> \o when[1]
                                            \o <<"' not lowered">>)),
                          gate_lines)
             ELSE EmitAll(r.b, [i \in 1..Len(gate_lines) |->
                                    Guarded(r.cond[1], gate_lines[i])])

\* ---------------------------------------------------------------- emitters
ConjugationAll(self, ctrls) ==
    [i \in 1..Len(ctrls) |-> Line(<<>>, "x", <<>>, <<Q(<<self.register>>, ctrls[i][1])>>,
                                  <<>>, <<>>)]
CU1Swapped(angle, c, t) == Line(<<>>, "cu1", <<angle>>, <<t, c>>, <<>>, <<>>)

\* self is the OpenQasmCompiler [register, num_qubits]; b is self.builder; every
\* emitter returns the builder after the call.
QReg(self, idx) == Q(<<self.register>>, idx)
U1(angle, q, text) == Line(<<>>, "u1", <<angle>>, <<q>>, <<>>, text)
CU1(angle, c, t) == Line(<<>>, "cu1", <<angle>>, <<c, t>>, <<>>, <<>>)
PredOrEmpty(op) == IF op.predicate = <<>> THEN << <<>> >> ELSE op.predicate

_emit_superpose(self, b, op) ==
    LET targets == IF op.targets = <<ALL>>
                   THEN [i \in 1..self.num_qubits |-> i - 1] ELSE op.targets
    IN  EmitAll(b, [i \in 1..Len(targets) |-> Gate("h", <<QReg(self, targets[i])>>)])

\* the x lines for the controls required at value 0, in the order of the controls
RECURSIVE Conjugation(_, _)
Conjugation(self, ctrls) ==
    IF ctrls = <<>> THEN <<>>
    ELSE (IF Head(ctrls)[2] = 0 THEN <<Gate("x", <<QReg(self, Head(ctrls)[1])>>)>> ELSE <<>>)
         \o Conjugation(self, Tail(ctrls))

_emit_phase(self, b, op) ==
    LET r == parse_conjunctive_controls(PredOrEmpty(op), op.register)
    IN  IF r = <<>>
        THEN emit(b, Comment(<<"// TODO: Phase ", op.angle, " where ">> \o PredOrEmpty(op)[1]
                             \o <<" (non-conjunctive predicate)">>))
        ELSE LET ctrls == r[1]
             IN  IF ctrls = <<>>
                 THEN _emit_with_when(b, <<U1(op.angle, QReg(self, 0),
                                              <<"// global phase marker">>)>>, op.when)
                 ELSE IF Len(ctrls) = 1
                 THEN _emit_with_when(b, Conjugation(self, ctrls)
                                         \o <<U1(op.angle, QReg(self, ctrls[1][1]), <<>>)>>
                                         \o Conjugation(self, ctrls), op.when)
                 ELSE IF Len(ctrls) = 2
                 THEN _emit_with_when(b, Conjugation(self, ctrls)
                                         \o <<CU1(op.angle, QReg(self, ctrls[1][1]),
                                                  QReg(self, ctrls[2][1]))>>
                                         \o Conjugation(self, ctrls), op.when)
                 ELSE emit(b, Comment(<<"// TODO: multi-control phase for predicate '">>
                                      \o PredOrEmpty(op)[1] \o <<"' not lowered">>))

_emit_flip(self, b, op) ==
    LET r == parse_conjunctive_controls(PredOrEmpty(op), op.register)
        target == op.targets[1]
    IN  IF r = <<>>
        THEN emit(b, Comment(<<"// TODO: Flip target ">> \o Str(target) \o <<" where ">>
                             \o PredOrEmpty(op)[1] \o <<" (non-conjunctive predicate)">>))
        ELSE LET ctrls == r[1]
             IN  IF ctrls = <<>>
                 THEN _emit_with_when(b, <<Gate("x", <<QReg(self, target)>>)>>, op.when)
                 ELSE IF Len(ctrls) = 1
                 THEN _emit_with_when(b, Conjugation(self, ctrls)
                                         \o <<Gate("cx", <<QReg(self, ctrls[1][1]),
                                                           QReg(self, target)>>)>>
                                         \o Conjugation(self, ctrls), op.when)
                 ELSE IF Len(ctrls) = 2
                 THEN _emit_with_when(b, Conjugation(self, ctrls)
                                         \o <<Gate("ccx", <<QReg(self, ctrls[1][1]),
                                                            QReg(self, ctrls[2][1]),
                                                            QReg(self, target)>>)>>
                                         \o Conjugation(self, ctrls), op.when)
                 ELSE emit(b, Comment(<<"// TODO: multi-control flip for predicate '">>
                                      \o PredOrEmpty(op)[1] \o <<"' not lowered">>))

\* ------------------------------------------------- multi-control synthesis
AncName(self) == <<"anc_", self.register>>
Anc_(self, idx) == Q(AncName(self), idx)
CCX(a, b, t) == Gate("ccx", <<a, b, t>>)

\* the compute chain: for i in range(2, k - 1), 0-based i; controls is 1-based
ChainStep(self, ctrls, i) == CCX(QReg(self, ctrls[i + 1]), Anc_(self, i - 2), Anc_(self, i - 1))
ComputeChainReversed(self, ctrls) ==
    LET k == Len(ctrls) IN [j \in 1..(k - 3) |-> ChainStep(self, ctrls, (k - 1) - j)]
UncomputeChainForward(self, ctrls) ==
    LET k == Len(ctrls) IN [j \in 1..(k - 3) |-> ChainStep(self, ctrls, j + 1)]
ComputeChain(self, ctrls) ==
    LET k == Len(ctrls) IN [j \in 1..(k - 3) |-> ChainStep(self, ctrls, j + 1)]
\* for i in reversed(range(2, k - 1))
UncomputeChain(self, ctrls) ==
    LET k == Len(ctrls) IN [j \in 1..(k - 3) |-> ChainStep(self, ctrls, (k - 1) - j)]

_emit_multi_control_x(self, b, ctrls, target) ==
    LET k == Len(ctrls)
    IN  IF k = 0 THEN emit(b, Gate("x", <<QReg(self, target)>>))
        ELSE IF k = 1
        THEN emit(b, Gate("cx", <<QReg(self, ctrls[1]), QReg(self, target)>>))
        ELSE IF k = 2
        THEN emit(b, CCX(QReg(self, ctrls[1]), QReg(self, ctrls[2]), QReg(self, target)))
        ELSE LET anc_count == k - 2
                 first == CCX(QReg(self, ctrls[1]), QReg(self, ctrls[2]), Anc_(self, 0))
             IN  EmitAll(ensure_qreg(b, AncName(self), anc_count),
                         <<first>> \o ComputeChain(self, ctrls)
                         \o <<CCX(QReg(self, ctrls[k]), Anc_(self, anc_count - 1),
                                  QReg(self, target))>>
                         \o UncomputeChain(self, ctrls) \o <<first>>)

_emit_multi_control_z(self, b, ctrls, target) ==
    IF ctrls = <<>> THEN emit(b, Gate("z", <<QReg(self, target)>>))
    ELSE emit(_emit_multi_control_x(self, emit(b, Gate("h", <<QReg(self, target)>>)),
                                    ctrls, target),
              Gate("h", <<QReg(self, target)>>))

\* axis.upper() on the lexemes of an axis name
Upper(text) ==
    [i \in 1..Len(text) |-> IF text[i] \in {"mean", "Mean"} THEN "MEAN"
                            ELSE IF text[i] = "Axis" THEN "AXIS" ELSE text[i]]
OnAllButLast(self, gate) ==
    [i \in 1..(self.num_qubits - 1) |-> Gate(gate, <<QReg(self, i - 1)>>)]
OnAll(self, gate) == [i \in 1..self.num_qubits |-> Gate(gate, <<QReg(self, i - 1)>>)]

_emit_reflect(self, b, op) ==
    LET axis == Upper(IF op.axis = <<>> THEN <<>> ELSE op.axis[1])
        n == self.num_qubits
    IN  IF ~(\E i \in 1..Len(axis) : axis[i] = "MEAN")
        THEN emit(b, Comment(<<"// TODO: Reflect axis '">>
                             \o (IF op.axis = <<>> THEN <<"None">> ELSE op.axis[1])
                             \o <<"' not lowered">>))
        ELSE LET b1 == EmitAll(EmitAll(b, OnAll(self, "h")), OnAll(self, "x"))
                 b2 == _emit_multi_control_z(self, b1, [i \in 1..(n - 1) |-> i - 1], n - 1)
             IN  EmitAll(EmitAll(b2, OnAll(self, "x")), OnAll(self, "h"))

_emit_measure(self, b, op) ==
    IF op.measure_all
    THEN LET dest == IF op.classical_target # <<>> THEN op.classical_target[1]
                     ELSE <<"meas_", self.register, "_">> \o Str(b.tmp_counter)
         IN  emit(ensure_creg(b, dest, self.num_qubits),
                  Line(<<>>, "measure", <<>>, <<QReg(self, ALL)>>, <<Q(dest, ALL)>>, <<>>))
    ELSE LET t == IF op.classical_target # <<>>
                  THEN [name |-> op.classical_target[1], b |-> b] ELSE tmp_creg(b, 1)
             b1 == IF ~DictHas(t.b.cregs, t.name) THEN ensure_creg(t.b, t.name, 1) ELSE t.b
         IN  emit(b1, Line(<<>>, "measure", <<>>, <<QReg(self, op.targets[1])>>,
                           <<Q(t.name, 0)>>, <<>>))

\* str(op.targets) of a list of indices
RECURSIVE ListItems(_)
ListItems(xs) ==
    IF xs = <<>> THEN <<>>
    ELSE IF Len(xs) = 1 THEN Str(xs[1])
    ELSE Str(xs[1]) \o <<", ">> \o ListItems(Tail(xs))
ListText(xs) == <<"[">> \o ListItems(xs) \o <<"]">>

_emit_analog(self, b, op) ==
    emit(b, Comment(<<"// Analog scope for ", op.register, " ">> \o ListText(op.targets)
                    \o <<": ">> \o op.raw))
_emit_align(self, b, op) == emit(b, Comment(<<"// Align block start: ">> \o op.raw))
\* the literal is "// Align branch " and the label follows it
_emit_branch(self, b, op) ==
    emit(b, Comment(<<"// Align ", "branch", " ">>
                    \o (IF op.label = <<>> THEN <<>> ELSE op.label[1])))
_emit_rotate(self, b, op) == emit(b, Comment(<<"// Rotate (pulse) not lowered: ">> \o op.raw))
_emit_wait(self, b, op) == emit(b, Comment(<<"// Wait (pulse) not lowered: ">> \o op.raw))
_emit_shiftphase(self, b, op) ==
    emit(b, Comment(<<"// ShiftPhase (virtual Z) not lowered: ">> \o op.raw))
_emit_setfreq(self, b, op) == emit(b, Comment(<<"// SetFreq (frame) not lowered: ">> \o op.raw))
_emit_play(self, b, op) == emit(b, Comment(<<"// Play (waveform) not lowered: ">> \o op.raw))
_emit_acquire(self, b, op) == emit(b, Comment(<<"// Acquire (readout) not lowered: ">> \o op.raw))

\* the body of the for loop of compile: getattr(self, f"_emit_{op.kind}", None)
Handle(self, b, op) ==
    IF op.kind = "superpose" THEN _emit_superpose(self, b, op)
    ELSE IF op.kind = "phase" THEN _emit_phase(self, b, op)
    ELSE IF op.kind = "flip" THEN _emit_flip(self, b, op)
    ELSE IF op.kind = "reflect" THEN _emit_reflect(self, b, op)
    ELSE IF op.kind = "measure" THEN _emit_measure(self, b, op)
    ELSE IF op.kind = "analog" THEN _emit_analog(self, b, op)
    ELSE IF op.kind = "align" THEN _emit_align(self, b, op)
    ELSE IF op.kind = "branch" THEN _emit_branch(self, b, op)
    ELSE IF op.kind = "rotate" THEN _emit_rotate(self, b, op)
    ELSE IF op.kind = "wait" THEN _emit_wait(self, b, op)
    ELSE IF op.kind = "shiftphase" THEN _emit_shiftphase(self, b, op)
    ELSE IF op.kind = "setfreq" THEN _emit_setfreq(self, b, op)
    ELSE IF op.kind = "play" THEN _emit_play(self, b, op)
    ELSE IF op.kind = "acquire" THEN _emit_acquire(self, b, op)
    ELSE emit(b, Comment(<<"// TODO: unsupported op ", op.kind, ": ">> \o op.raw))

\* ---------------------------------------- operations given to the backend
\* the label _parse_operation stores for a branch clause
BranchLabel(stmt) ==
    IF \E i \in 1..Len(stmt) : stmt[i] = " "
    THEN LET i == CHOOSE i \in 1..Len(stmt) :
                      stmt[i] = " " /\ \A j \in 1..(i - 1) : stmt[j] # " "
         IN  Strip(SubSeq(stmt, i + 1, Len(stmt)))
    ELSE <<"branch">>

P0 == EqText("q", <<"0">>, <<>>, <<>>, "0")
P1 == BareText("q", <<"1">>)
GatePredicates ==
    { <<>>, <<P0>>, <<P1>>,
      <<Join(<<P0, EqText("q", <<"1">>, <<" ">>, <<" ">>, "1")>>, <<" ", "&&", " ">>)>>,
      <<Join(<<BareText("q", <<"0">>), EqText("q", <<"1">>, <<>>, <<>>, "0")>>, <<"&&">>)>>,
      <<Join(<<P0, EqText("q", <<"1">>, <<>>, <<>>, "0")>>, <<" ", "&&", " ">>)>>,
      <<Join(<<BareText("q", <<"0">>), P1, BareText("q", <<"2">>)>>, <<"&&">>)>>,
      <<BareText("q", <<"0">>) \o <<" ", "||", " ">> \o P1>> }
GateWhens ==
    { <<(<<"c", " ", "==", " ", "1">>)>>, <<(<<" ", "d", "==", "0", " ">>)>>,
      <<(<<"c", " ", "==", " ", "1", "0">>)>>,
      <<(<<"c", " ", "==", " ", "1", " ", "&&", " ", "d", " ", "==", " ", "1">>)>>,
      <<(<<"c", " ", ">", " ", "0">>)>>, << <<>> >> }

LogicOp(kind, targets, pred, when) ==
    [GateOp(kind, "q", targets, <<"q.", kind>>)
        EXCEPT !.predicate = pred, !.when = when, !.angle = "PI"]
FlipOps ==
    { LogicOp("flip", <<2>>, p, <<>>) : p \in GatePredicates }
    \cup { LogicOp("flip", <<2>>, <<P0>>, w) : w \in GateWhens }
PhaseOps ==
    { LogicOp("phase", <<>>, p, <<>>) : p \in GatePredicates }
    \cup { LogicOp("phase", <<>>, <<P0>>, <<(<<"c", " ", "==", " ", "1">>)>>) }
ReflectOps ==
    { [GateOp("reflect", "q", <<>>, <<"q.Reflect">>) EXCEPT !.axis = <<a>>] :
        a \in { <<"Axis", ".", "MEAN">>, <<"mean">>, <<"Axis", ".", "X">> } }
MeasureOps ==
    { [GateOp("measure", "q", IF all THEN <<>> ELSE <<0>>, <<"Measure">>)
          EXCEPT !.measure_all = all, !.classical_target = c] :
        all \in BOOLEAN, c \in { <<>>, <<(<<"c">>)>> } }
SuperposeOps == { GateOp("superpose", "q", <<ALL>>, <<"q.Superpose">>) }
BranchTexts ==
    { <<"branch", " ", "q", "[", "0", "]">>, <<"branch", " ", " ", "q", "[", "0", "]">>,
      <<"branch">> }
CommentOps ==
    { GateOp("analog", "q", <<1>>, <<"Analog(target: q[1])">>),
      GateOp("align", "q", <<>>, <<"Align">>),
      GateOp("rotate", "q", <<1>>, <<"Rotate(duration: 10ns)">>),
      GateOp("wait", "q", <<>>, <<"Wait(duration: 5ns)">>),
      GateOp("shiftphase", "q", <<>>, <<"ShiftPhase(angle: PI)">>),
      GateOp("setfreq", "q", <<>>, <<"SetFreq(hz: 5e9)">>),
      GateOp("play", "q", <<>>, <<"Play(waveform: drive)">>),
      GateOp("acquire", "q", <<>>, <<"Acquire(duration: 20ns)">>),
      GateOp("barrier", "q", <<>>, <<"Barrier()">>) }
    \cup { [GateOp("branch", "q", <<0>>, t) EXCEPT !.label = <<BranchLabel(t)>>] :
             t \in BranchTexts }
GateOps == FlipOps \cup PhaseOps \cup ReflectOps \cup MeasureOps \cup SuperposeOps
           \cup CommentOps

\* ------------------------------------------------------- OpenQasmCompiler
\* one iteration of the for loop of compile, on the next operation of the list
CompileOp(op) ==
    /\ pc = "compiling"
    /\ Len(compiled) < MaxOps
    /\ builder' = Handle(compiler, builder, op)
    /\ compiled' = Append(compiled, [op |-> op, first |-> Len(builder.op_lines) + 1,
                                     last |-> Len(builder'.op_lines)])
    /\ UNCHANGED <<replayVars, lines, lineNo, tokens, statements, registers, operations, opPaths,
                   walkStack, parserStatements, scheduler, schedule, raised, pc,
                   compiler, qasm, predicate, controls>>

\* the list is exhausted: return self.builder.render()
CompileReturn ==
    /\ pc = "compiling"
    /\ qasm' = <<render(builder)>>
    /\ pc' = "rendered"
    /\ UNCHANGED <<replayVars, lines, lineNo, tokens, statements, registers, operations, opPaths,
                   walkStack, parserStatements, scheduler, schedule, raised,
                   compiler, builder, compiled, predicate, controls>>

\* OpenQasmCompiler(register, num_qubits) on a register of 1..MaxQubits qubits
InitGate ==
    /\ \E n \in 1..MaxQubits :
          /\ compiler = [register |-> "q", num_qubits |-> n]
          /\ builder = QasmBuilder("q", n)
    /\ compiled = <<>>
    /\ qasm = <<>>
    /\ pc = "compiling"
    /\ lines = <<>>
    /\ lineNo = 0
    /\ tokens = <<>>
    /\ statements = <<>>
    /\ registers = <<>>
    /\ operations = <<>>
    /\ opPaths = <<>>
    /\ walkStack = <<>>
    /\ parserStatements = <<>>
    /\ scheduler = <<>>
    /\ schedule = <<>>
    /\ raised = ""
    /\ ReplayIdle
    /\ predicate = <<>>
    /\ controls = <<>>

NextGate ==
    \/ \E op \in GateOps : CompileOp(op)
    \/ CompileReturn

SpecGate == InitGate /\ [][NextGate]_vars

\* ------------------------------------------------------ LoggingPulseBackend
LoggingPulseBackend == [events |-> <<>>, started |-> FALSE, finished |-> FALSE]

on_start(self, sched) == [self EXCEPT !.started = TRUE, !.finished = FALSE]

on_event(self, event) == [self EXCEPT !.events = Append(@, event)]

\* on_finish returns the summary; the backend after the call is .self
on_finish(self, sched) ==
    [self |-> [self EXCEPT !.finished = TRUE],
     ret |-> [event_count |-> Len(self.events), duration_ns |-> duration_ns(sched)]]

\* ----------------------------------------------------------- PulseSimulator
\* a call made on the backend: the method, its argument, what it returned
Call(fn, arg, ret) == [fn |-> fn, arg |-> arg, ret |-> ret]

\* run(schedule) is entered on a returned or fresh simulator: on_start, and the
\* sorted list the for loop iterates over
RunStart(sched) ==
    /\ pc = "replay"
    /\ IF run = <<>> THEN TRUE ELSE run[1].returned # <<>>
    /\ (IF run = <<>> THEN 0 ELSE run[1].count) < MaxRuns
    /\ backend' = <<on_start(backend[1], sched)>>
    /\ run' = <<[schedule |-> sched, sorted |-> SortEvents(sched.events), i |-> 0,
                 calls |-> <<Call("on_start", <<sched>>, <<>>)>>, returned |-> <<>>,
                 count |-> (IF run = <<>> THEN 0 ELSE run[1].count) + 1]>>
    /\ UNCHANGED <<gateVars, walked, durationText, parsedDuration, lines, lineNo, tokens, statements, registers,
                   operations, opPaths, walkStack, parserStatements, scheduler, schedule,
                   raised, pc>>

\* one iteration of the for loop of run
RunEvent ==
    /\ pc = "replay"
    /\ run # <<>> /\ run[1].returned = <<>>
    /\ run[1].i < Len(run[1].sorted)
    /\ LET event == run[1].sorted[run[1].i + 1]
       IN  /\ backend' = <<on_event(backend[1], event)>>
           /\ run' = <<[run[1] EXCEPT !.i = @ + 1,
                                      !.calls = Append(@, Call("on_event", <<event>>, <<>>))]>>
    /\ UNCHANGED <<gateVars, walked, durationText, parsedDuration, lines, lineNo, tokens, statements, registers,
                   operations, opPaths, walkStack, parserStatements, scheduler, schedule,
                   raised, pc>>

\* return self.backend.on_finish(schedule)
RunFinish ==
    /\ pc = "replay"
    /\ run # <<>> /\ run[1].returned = <<>>
    /\ run[1].i = Len(run[1].sorted)
    /\ LET r == on_finish(backend[1], run[1].schedule)
       IN  /\ backend' = <<r.self>>
           /\ run' = <<[run[1] EXCEPT
                          !.calls = Append(@, Call("on_finish", <<run[1].schedule>>, <<r.ret>>)),
                          !.returned = <<r.ret>>]>>
    /\ UNCHANGED <<gateVars, walked, durationText, parsedDuration, lines, lineNo, tokens, statements, registers,
                   operations, opPaths, walkStack, parserStatements, scheduler, schedule,
                   raised, pc>>

\* the events a caller may put in a PulseSchedule, in any order
ReplayEvents ==
    { PulseEvent("wait", r, t, T(s), T(5), <<>>, ClauseTok(WaitC)) :
        r \in {"q", "r"}, t \in {<<>>, <<0>>, <<1>>}, s \in {0, 10} }
ReplaySchedules == UNION { [1..n -> ReplayEvents] : n \in 0..MaxEvents }

\* backend = LoggingPulseBackend(); PulseSimulator(backend), and the schedule
\* whose leading events the caller replays
InitReplay ==
    /\ \E es \in ReplaySchedules : schedule = <<[events |-> es]>>
    /\ backend = <<LoggingPulseBackend>>
    /\ run = <<>>
    /\ walked = <<>>
    /\ durationText = <<>>
    /\ parsedDuration = <<>>
    /\ pc = "replay"
    /\ lines = <<>>
    /\ lineNo = 0
    /\ tokens = <<>>
    /\ statements = <<>>
    /\ registers = <<>>
    /\ operations = <<>>
    /\ opPaths = <<>>
    /\ walkStack = <<>>
    /\ parserStatements = <<>>
    /\ scheduler = <<>>
    /\ raised = ""
    /\ GateIdle

NextReplay ==
    \/ \E k \in 0..Len(schedule[1].events) :
          RunStart([events |-> SubSeq(schedule[1].events, 1, k)])
    \/ RunEvent
    \/ RunFinish

SpecReplay == InitReplay /\ [][NextReplay]_vars

\* --------------------------------------- _parse_duration on the text itself
\* A duration text is a sequence of lexemes: a digit, a sign, ".", "e", a
\* blank, or a word of letters.  A float is kept exact as m * 10^e with no
\* trailing zero in m.
RECURSIVE Dec(_, _)
Dec(m, e) ==
    IF m = 0 THEN [m |-> 0, e |-> 0]
    ELSE IF m % 10 = 0 THEN Dec(m \div 10, e + 1)
    ELSE [m |-> m, e |-> e]
DecTimes(a, b) == Dec(a.m * b.m, a.e + b.e)

NumDigits == { DecimalText[i] : i \in 1..10 }
NumDigitVal(d) == (CHOOSE i \in 1..10 : DecimalText[i] = d) - 1
RECURSIVE NatOf(_)
NatOf(ds) ==
    IF ds = <<>> THEN 0
    ELSE 10 * NatOf(SubSeq(ds, 1, Len(ds) - 1)) + NumDigitVal(ds[Len(ds)])
RECURSIVE NumEnd(_, _)
NumEnd(s, i) == IF At(s, i) \in NumDigits THEN NumEnd(s, i + 1) ELSE i
\* the words of letters that occur in duration texts
UnitWords == {"s", "ms", "us", "ns", "ps", "fs", "dt", "S", "MS", "US", "NS", "PS", "FS", "DT",
              "min", "h", "abc"}
RECURSIVE LettersEnd(_, _)
LettersEnd(s, i) == IF At(s, i) \in UnitWords \cup {"e"} THEN LettersEnd(s, i + 1) ELSE i

\* float(group 1): sign, digits before and after the point, exponent
FloatOf(s, a, b, c, x, d) ==
    LET whole == SubSeq(s, a, b - 1)
        frac == IF c > b THEN SubSeq(s, b + 1, c - 1) ELSE <<>>
        mant == NatOf(whole \o frac)
        expo == IF d > c
                THEN (IF At(s, c + 1) = "-" THEN -1 ELSE 1) * NatOf(SubSeq(s, x, d - 1))
                ELSE 0
    IN  Dec((IF At(s, 1) = "-" THEN -1 ELSE 1) * mant, expo - Len(frac))

\* re.match(r"([-+]?\d*\.?\d+(?:e[-+]?\d+)?)\s*([a-zA-Z]+)?", text.strip())
SplitText(text) ==
    LET s == Strip(text)
        a == IF At(s, 1) \in {"-", "+"} THEN 2 ELSE 1
        b == NumEnd(s, a)
        point == At(s, b) = "." /\ At(s, b + 1) \in NumDigits
        c == IF point THEN NumEnd(s, b + 1) ELSE b
        x == IF At(s, c + 1) \in {"-", "+"} THEN c + 2 ELSE c + 1
        d == IF At(s, c) = "e" /\ NumEnd(s, x) > x THEN NumEnd(s, x) ELSE c
        k == SkipSpaces(s, d)
        u == SubSeq(s, k, LettersEnd(s, k) - 1)
    IN  IF c = a THEN [value |-> Dec(0, 0), unit |-> "ns"]
        ELSE [value |-> FloatOf(s, a, b, c, x, d),
              unit |-> IF u = <<>> THEN "ns"
                       ELSE IF Len(u) = 1 THEN UnitLower(u[1]) ELSE "other"]

\* _parse_duration(text) for an Optional text: value * factor
ParseDurationText(text) ==
    IF text = <<>> \/ text[1] = <<>> THEN Dec(0, 0)
    ELSE LET vu == SplitText(text[1])
             unit == vu.unit
             factor == IF unit = "s" THEN Dec(1, 9)
                       ELSE IF unit = "ms" THEN Dec(1, 6)
                       ELSE IF unit = "us" THEN Dec(1, 3)
                       ELSE IF unit = "ns" THEN Dec(1, 0)
                       ELSE IF unit = "ps" THEN Dec(1, -3)
                       ELSE IF unit = "fs" THEN Dec(1, -6)
                       ELSE IF unit = "dt" THEN Dec(1, 0)
                       ELSE Dec(1, 0)
         IN  DecTimes(vu.value, factor)

\* the duration texts: an optional sign, digits, fraction and exponent, an
\* optional blank, an optional word, between optional blanks; None as well
DurationParts ==
    [sign : {"", "-", "+"},
     whole : {<<>>, <<"5">>, <<"2", "0">>},
     frac : {<<>>, <<"5">>},
     expo : {<<>>, <<"e", "3">>, <<"e", "-", "3">>},
     gap : {<<>>, <<" ">>},
     word : {"", "abc", "min", "h", "ns", "NS", "us", "ms", "MS", "s", "ps", "fs", "dt", "DT"},
     pad : {<<>>, <<" ">>}]
PartsText(p) ==
    p.pad \o (IF p.sign = "" THEN <<>> ELSE <<p.sign>>) \o p.whole
    \o (IF p.frac = <<>> THEN <<>> ELSE <<".">> \o p.frac)
    \o (IF p.whole = <<>> /\ p.frac = <<>> THEN <<>> ELSE p.expo)
    \o p.gap \o (IF p.word = "" THEN <<>> ELSE <<p.word>>) \o p.pad
DurationTexts ==
    { [text |-> <<PartsText(p)>>, parts |-> <<p>>] : p \in DurationParts }
    \cup { [text |-> <<>>, parts |-> <<>>] }

\* self._parse_duration(text)
ParseDuration ==
    /\ pc = "duration"
    /\ parsedDuration = <<>>
    /\ parsedDuration' = <<ParseDurationText(durationText.text)>>
    /\ pc' = "parsed duration"
    /\ UNCHANGED <<gateVars, walked, backend, run, durationText, lines, lineNo, tokens,
                   statements, registers, operations, opPaths, walkStack, parserStatements,
                   scheduler, schedule, raised>>

InitDuration ==
    /\ durationText \in DurationTexts
    /\ parsedDuration = <<>>
    /\ backend = <<>>
    /\ run = <<>>
    /\ walked = <<>>
    /\ pc = "duration"
    /\ lines = <<>>
    /\ lineNo = 0
    /\ tokens = <<>>
    /\ statements = <<>>
    /\ registers = <<>>
    /\ operations = <<>>
    /\ opPaths = <<>>
    /\ walkStack = <<>>
    /\ parserStatements = <<>>
    /\ scheduler = <<>>
    /\ schedule = <<>>
    /\ raised = ""
    /\ GateIdle

NextDuration == ParseDuration

SpecDuration == InitDuration /\ [][NextDuration]_vars

\* ------------------------------------- _compile_block called on the tree
\* the cursor the walk started from and what it returned
WalkFrom(t0, r) == [start_time |-> t0, events |-> r.events, duration |-> r.duration]

\* self._compile_block(statements=..., default_register=self.default_register,
\* scope="logic", analog_context=None, start_time=t0, branch_label=None) on the
\* statement tree the parser gathered
CompileBlock(t0) ==
    /\ pc = "parsed"
    /\ scheduler # <<>>
    /\ walked = <<>>
    /\ walked' = <<WalkFrom(t0, _compile_block(scheduler[1], statements,
                                               scheduler[1].default_register, "logic",
                                               <<>>, t0, <<>>))>>
    /\ pc' = "walked"
    /\ UNCHANGED <<gateVars, backend, run, durationText, parsedDuration, lines, lineNo,
                   tokens, statements, registers, operations, opPaths, walkStack,
                   parserStatements, scheduler, schedule, raised>>

\* the trees handed to the walk: sequences of pulse clauses and wrappers, and an
\* Align with up to MaxBranches children between optional neighbours
Wait25 == Clause("Wait", NoRef, DurText(25, "ns"))
RotateBack == Clause("Rotate", NoRef, DurText(-5, "ns"))
WalkItems ==
    { Leaf(WaitC), Leaf(RotateR1), Leaf(AcquireC), Leaf(ShiftPhaseC), Leaf(FlipC),
      Leaf(RotateBack),
      Stmt(ClauseTok(AnalogQ1), <<Leaf(WaitC), Leaf(AcquireC)>>),
      Stmt(ClauseTok(BlockC), <<Leaf(RotateR1)>>),
      Stmt(ClauseTok(RotateC), <<Leaf(WaitC)>>) }
WalkSequences == UNION { [1..n -> WalkItems] : n \in 0..MaxSeq }
BranchBodies ==
    { <<>>, <<Leaf(WaitC)>>, <<Leaf(Wait25)>>, <<Leaf(RotateR1), Leaf(WaitC)>>,
      <<Stmt(ClauseTok(AnalogQ1), <<Leaf(AcquireC)>>)>>,
      <<Stmt(ClauseTok(AlignC), <<Stmt(ClauseTok(BranchR1), <<Leaf(Wait25)>>)>>)>>,
      <<Stmt(ClauseTok(AlignC), <<Stmt(ClauseTok(AnalogR0), <<Leaf(Wait25)>>)>>)>> }
AlignChildren ==
    { Stmt(ClauseTok(BranchQ0), b) : b \in BranchBodies }
    \cup { Stmt(ClauseTok(BranchR1), b) : b \in { <<Leaf(WaitC)>>, <<Leaf(Wait25)>> } }
    \cup { Leaf(WaitC), Stmt(ClauseTok(AnalogR0), <<Leaf(Wait25)>>) }
Aligns ==
    { Stmt(ClauseTok(AlignC), bs) :
        bs \in UNION { [1..n -> AlignChildren] : n \in 0..MaxBranches } }
AlignTrees ==
    { pre \o <<a>> \o post :
        pre \in { <<>>, <<Leaf(WaitC)>> }, a \in Aligns, post \in { <<>>, <<Leaf(AcquireC)>> } }
WalkTrees ==
    WalkSequences \cup AlignTrees
    \cup { <<Stmt(ClauseTok(w), <<a>> \o post)>> :
             w \in {AnalogR0, BranchQ0}, a \in Aligns, post \in { <<>>, <<Leaf(AcquireC)>> } }

\* parse() has gathered the tree and collected the registers q and r, and a
\* PulseScheduler with or without a register filter is at hand
InitWalk ==
    /\ statements \in WalkTrees
    /\ registers = <<[name |-> "q", count |-> 2], [name |-> "r", count |-> 2]>>
    /\ \E f \in {"", "r"} :
          scheduler = <<[register_filter |-> f, default_register |-> "q"]>>
    /\ pc = "collected"
    /\ lines = <<>>
    /\ lineNo = 0
    /\ tokens = <<>>
    /\ operations = <<>>
    /\ opPaths = <<>>
    /\ walkStack = <<>>
    /\ parserStatements = <<>>
    /\ schedule = <<>>
    /\ raised = ""
    /\ ReplayIdle
    /\ GateIdle

NextWalk ==
    \/ WalkCall
    \/ WalkVisit
    \/ WalkReturn
    \/ \E t0 \in {T(0), T(7)} : CompileBlock(t0)

SpecWalk == InitWalk /\ [][NextWalk]_vars

\* ------------------------------------------------- the claims' vocabulary
Text(path) == StmtAt(statements, path).text
Head_(path) == Text(path).body.head
Anc(path, n) == SubSeq(path, 1, n)
\* the depths of the proper ancestors of path whose clause has the given head
AncestorsWith(path, head) == { n \in 1..(Len(path) - 1) : Head_(Anc(path, n)) = head }
Deepest(ns) == CHOOSE n \in ns : \A m \in ns : m <= n
OpIndices == 1..Len(operations)
ParseReturned == pc \in {"parsed", "constructed", "built"} \/ scheduler # <<>>

\* the operation a clause resolves to under the context its ancestors alone give
RECURSIVE ResolveAt(_, _, _, _, _)
ResolveAt(stmts, path, default_register, scope, analog_context) ==
    LET s == stmts[path[1]]
        r == _parse_operation(s.text, scope, analog_context, default_register)
    IN  IF Len(path) = 1 THEN r.op
        ELSE ResolveAt(s.children, Tail(path),
                       CtxGet(r.ctx.default_register, default_register),
                       CtxGet(r.ctx.scope, scope),
                       CtxGet(r.ctx.analog_context, analog_context))

\* the paths of a forest in document order, a statement before its children
RECURSIVE PreOrderFrom(_, _, _)
PreOrderFrom(stmts, i, prefix) ==
    IF i > Len(stmts) THEN <<>>
    ELSE <<Append(prefix, i)>>
         \o PreOrderFrom(stmts[i].children, 1, Append(prefix, i))
         \o PreOrderFrom(stmts, i + 1, prefix)

RecognisedHeads ==
    {"Superpose", "Phase", "Flip", "Reflect", "Measure", "Analog", "Align", "branch",
     "Rotate", "Wait", "ShiftPhase", "SetFreq", "Play", "Acquire"}
Recognised(path) == Text(path).ctl = "" /\ Head_(path) \in RecognisedHeads

\* operation k comes from a clause without explicit target whose nearest
\* enclosing Analog block names an indexed target
InAnalog(k) ==
    /\ Text(opPaths[k]).body.ref = NoRef
    /\ AncestorsWith(opPaths[k], "Analog") # {}
    /\ Text(Anc(opPaths[k], Deepest(AncestorsWith(opPaths[k], "Analog")))).body.ref.idx # <<>>
AnalogRef(k) == Text(Anc(opPaths[k], Deepest(AncestorsWith(opPaths[k], "Analog")))).body.ref

\* C3: a Rotate, Wait, ShiftPhase or SetFreq clause without explicit target inside
\* Analog(target: R[i]) (the nearest enclosing Analog block) resolves to register R
\* and targets [i].
C3_AnalogTargetPropagates ==
    \A k \in OpIndices :
        (operations[k].kind \in {"rotate", "wait", "shiftphase", "setfreq"} /\ InAnalog(k))
        => /\ operations[k].register = AnalogRef(k).name
           /\ operations[k].targets = AnalogRef(k).idx

C3_Witness ==
    /\ pc = "parsed"
    /\ \E k \in OpIndices :
        /\ operations[k].kind = "setfreq"
        /\ InAnalog(k)
        /\ AnalogRef(k) = Ref("r", 0)
        /\ registers[1].name = "q"
        /\ operations[k].targets = <<0>>

\* C4: a Play or Acquire clause without explicit target inside Analog(target: R[i])
\* resolves to register R and target index i, as the other pulse kinds do.
C4_PlayAcquireInheritTarget ==
    \A k \in OpIndices :
        (operations[k].kind \in {"play", "acquire"} /\ InAnalog(k))
        => /\ operations[k].register = AnalogRef(k).name
           /\ operations[k].targets = AnalogRef(k).idx

\* operation k comes from a clause without explicit target in a branch R[i] of an
\* Align block, with no Analog block around it
InBranchOnly(k) ==
    LET p == opPaths[k]
        bs == { n \in AncestorsWith(p, "branch") :
                  n > 1 /\ Head_(Anc(p, n - 1)) = "Align" }
    IN  /\ Text(p).body.ref = NoRef
        /\ AncestorsWith(p, "Analog") = {}
        /\ bs # {}
        /\ Text(Anc(p, Deepest(bs))).body.ref.idx # <<>>
BranchRef(k) ==
    LET p == opPaths[k]
        bs == { n \in AncestorsWith(p, "branch") :
                  n > 1 /\ Head_(Anc(p, n - 1)) = "Align" }
    IN  Text(Anc(p, Deepest(bs))).body.ref

\* C5: a Rotate or Wait clause without explicit target inside `branch R[i]` of an
\* Align block, with no enclosing Analog block, resolves to targets [i].
C5_BranchTargetPropagates ==
    \A k \in OpIndices :
        (operations[k].kind \in {"rotate", "wait"} /\ InBranchOnly(k))
        => operations[k].targets = BranchRef(k).idx

\* C6: the operation list of parse() is the pre-order, document-order sequence of the
\* recognised clauses; an unrecognised clause gives no operation, the recognised
\* clauses below it still do.
C6_PreOrderOperations ==
    ParseReturned =>
        /\ opPaths = SelectSeq(PreOrderFrom(statements, 1, <<>>), Recognised)
        /\ \A k \in OpIndices : operations[k].raw = Text(opPaths[k])

C6_Witness ==
    /\ pc = "parsed"
    /\ \E k \in OpIndices :
        /\ Len(opPaths[k]) >= 2
        /\ ~Recognised(Anc(opPaths[k], Len(opPaths[k]) - 1))
        /\ k < Len(operations)
        /\ Len(opPaths[k + 1]) = 1

\* C7: a context override applies to the overriding statement's subtree only: every
\* operation is the one its clause resolves to under the context given by its own
\* ancestors, whatever the earlier siblings at any level overrode.
\* _compile_block on a forest from time t, under the context parse() starts with
CompileFrom(stmts, t) ==
    _compile_block([register_filter |-> "", default_register |-> registers[1].name],
                   stmts, registers[1].name, "logic", <<>>, t, <<>>)

C7_OverrideOnlyInSubtree ==
    /\ \A k \in OpIndices :
          <<operations[k]>> =
              ResolveAt(statements, opPaths[k], registers[1].name, "logic", <<>>)
    \* the scheduler compiles the later siblings as it compiles them alone
    /\ pc = "parsed" =>
          \A j \in 0..Len(statements) :
              LET whole == CompileFrom(statements, T(0))
                  before == CompileFrom(SubSeq(statements, 1, j), T(0))
                  after == CompileFrom(SubSeq(statements, j + 1, Len(statements)),
                                       before.duration)
              IN  /\ whole.events = before.events \o after.events
                  /\ whole.duration = TAdd(before.duration, after.duration)

C7_Witness ==
    /\ pc = "parsed"
    /\ \E k \in OpIndices :
        LET p == opPaths[k]
        IN  /\ Len(p) = 1 /\ p[1] > 1
            /\ Head_(<<p[1] - 1>>) = "Analog"
            /\ StmtAt(statements, <<p[1] - 1>>).children # <<>>
            /\ Text(<<p[1] - 1>>).body.ref = Ref("r", 0)
            /\ operations[k].kind = "rotate"
            /\ operations[k].register = "q"
            /\ operations[k].targets = <<>>
            /\ operations[k].scope = "logic"

\* ----------------------------------------------------- the schedule claims
PulseHeads == {"Rotate", "Wait", "ShiftPhase", "SetFreq", "Play", "Acquire"}
IsDeclLeaf(s) == s.children = <<>> /\ s.text.ctl = "" /\ s.text.body.head = "let"
IsPulseLeaf(s) ==
    s.children = <<>> /\ s.text.ctl = "" /\ s.text.body.head \in PulseHeads
BlocksWith(head) ==
    { i \in 1..Len(statements) :
        statements[i].text.ctl = "" /\ statements[i].text.body.head = head }
Children(head) == statements[CHOOSE i \in BlocksWith(head) : TRUE].children
DurationOf(s) == _parse_duration(s.text.body.dur)
BuiltDefault ==
    /\ pc = "built"
    /\ scheduler[1].register_filter = ""
    /\ scheduler[1].default_register = registers[1].name

\* the script is register declarations and one Analog block of pulse clauses
SequentialScript ==
    /\ Cardinality(BlocksWith("Analog")) = 1
    /\ \A i \in 1..Len(statements) : i \in BlocksWith("Analog") \/ IsDeclLeaf(statements[i])
    /\ Children("Analog") # <<>>
    /\ \A j \in 1..Len(Children("Analog")) : IsPulseLeaf(Children("Analog")[j])

RECURSIVE SumDurations(_, _)
SumDurations(stmts, n) ==
    IF n = 0 THEN T(0) ELSE TAdd(SumDurations(stmts, n - 1), DurationOf(stmts[n]))

\* C1: for a script whose pulse clauses all sit in one Analog block, build() returns
\* one event per clause in document order, event i starting at d0+...+d(i-1), and
\* the schedule lasts d0+...+d(n-1).
C1_SequentialSchedule ==
    (BuiltDefault /\ SequentialScript) =>
        LET ps == Children("Analog")
            ev == schedule[1].events
        IN  /\ Len(ev) = Len(ps)
            /\ \A i \in 1..Len(ps) :
                  i <= Len(ev) =>
                    /\ ev[i].raw = ps[i].text
                    /\ ev[i].start_ns = SumDurations(ps, i - 1)
                    /\ ev[i].duration_ns = DurationOf(ps[i])
            /\ duration_ns(schedule[1]) = SumDurations(ps, Len(ps))

\* the script is register declarations and one Align block of branches, each
\* holding one pulse clause
AlignScript ==
    /\ Cardinality(BlocksWith("Align")) = 1
    /\ \A i \in 1..Len(statements) : i \in BlocksWith("Align") \/ IsDeclLeaf(statements[i])
    /\ Children("Align") # <<>>
    /\ \A j \in 1..Len(Children("Align")) :
          LET b == Children("Align")[j]
          IN  /\ b.text.ctl = "" /\ b.text.body.head = "branch"
              /\ b.text.body.ref # NoRef
              /\ Len(b.children) = 1
              /\ IsPulseLeaf(b.children[1])

\* C2: for a script with one Align block of k one-pulse branches, build() returns k
\* events, each starting at 0 with its own duration and labelled with the reference
\* text of its branch, and the schedule lasts max(d1..dk).
C2_AlignSchedule ==
    (BuiltDefault /\ AlignScript) =>
        LET bs == Children("Align")
            ev == schedule[1].events
            ds == [j \in 1..Len(bs) |-> DurationOf(bs[j].children[1])]
        IN  /\ Len(ev) = Len(bs)
            /\ \A j \in 1..Len(bs) :
                  \E i \in 1..Len(ev) :
                    /\ ev[i].raw = bs[j].children[1].text
                    /\ ev[i].branch = <<bs[j].text.body.ref>>
                    /\ ev[i].start_ns = T(0)
                    /\ ev[i].duration_ns = ds[j]
            /\ duration_ns(schedule[1]) = MaxOf(ds)

\* C8: a source text whose braces do not balance makes parsing abort: parse()
\* returns a result only for balanced text.
C8_UnbalancedIsFatal == ParseReturned => BracesBalance(tokens)

RECURSIVE DeclaresRegister(_)
DeclaresRegister(stmts) ==
    \E i \in 1..Len(stmts) :
        stmts[i].text.body.decl # <<>> \/ DeclaresRegister(stmts[i].children)

\* C9: parse() raises and returns nothing when no statement at any depth declares a
\* register; a PulseScheduler whose target_register is given and is no key of the
\* register table is never constructed, an error is raised and no schedule is built.
C9_FatalRegisterErrors ==
    /\ (pc \notin {"lex", "gathered"} /\ ~DeclaresRegister(statements))
        => /\ pc = "raised"
           /\ raised = "No registers declared in the PsiScript."
           /\ operations = <<>> /\ scheduler = <<>> /\ schedule = <<>>
    /\ scheduler # <<>>
        => \/ scheduler[1].register_filter = ""
           \/ DictHas(registers, scheduler[1].register_filter)
    /\ raised = "Register not declared." => (pc = "raised" /\ scheduler = <<>> /\ schedule = <<>>)
    /\ schedule # <<>> => scheduler # <<>>

C9_Witness ==
    /\ pc = "raised"
    /\ raised = "Register not declared."
    /\ DictHas(registers, "r") /\ ~DictHas(registers, "q")
    /\ operations # <<>>
    /\ schedule = <<>>

C9_WitnessNoRegisters ==
    /\ pc = "raised"
    /\ raised = "No registers declared in the PsiScript."
    /\ Len(statements) >= 1 /\ statements[1].children # <<>>

\* ------------------------------------------------------ the text claims
\* the whole text, comments removed and the lines joined by their line ends
RECURSIVE JoinedText(_)
JoinedText(ls) ==
    IF ls = <<>> THEN <<>>
    ELSE BeforeComment(Head(ls)) \o <<" ">> \o JoinedText(Tail(ls))

\* C10: the statement tree depends only on the text with comments removed and lines
\* concatenated; clauses end only at `;`, `{` and `}`, so a clause split over lines
\* gives the same single Statement as on one line.
C10_LineBreaksDoNotSplit ==
    pc = "gathered" =>
        statements = parse_block(CharLoop(JoinedText(lines), <<>>, <<>>), 1, <<>>).stmts

\* ------------------------------------------------ claims on the decomposer
\* the shapes a term may have: register[index] == 0|1 and bare register[index]
ExactShapes(reg) ==
    { [text |-> EqText(reg, ds, s1, s2, v), pair |-> <<IntOf(ds), DigitVal(v)>>] :
        ds \in IdxTexts, s1 \in Spaces, s2 \in Spaces, v \in {"0", "1"} }
    \cup { [text |-> BareText(reg, ds), pair |-> <<IntOf(ds), 1>>] : ds \in IdxTexts }
Decomposed == pc = "decomposed"
PredText == predicate.text[1]
HasOr == \E i \in 1..Len(PredText) : PredText[i] = "||"
\* the trimmed &&-separated terms of the predicate, left to right
PredTerms == StripAll(SplitOn(PredText, "&&", <<>>))
ShapesOf(term) == { d \in ExactShapes(predicate.register) : d.text = term }
AllExact == \A i \in 1..Len(PredTerms) : ShapesOf(PredTerms[i]) # {}
ExpectedControls ==
    [i \in 1..Len(PredTerms) |-> (CHOOSE d \in ShapesOf(PredTerms[i]) : TRUE).pair]
Unsupported == <<>>

\* C11: an absent predicate decomposes to the empty list, a predicate holding
\* `||` anywhere to the unsupported marker, and a conjunction of terms
\* reg[i] == 0|1 or bare reg[i] on the given register to one (index, value)
\* pair per term in source order, a bare term giving value 1.
C11_ConjunctiveControls ==
    Decomposed =>
        /\ predicate.text = <<>> => controls[1] = << <<>> >>
        /\ (predicate.text # <<>> /\ HasOr) => controls[1] = Unsupported
        /\ (predicate.text # <<>> /\ ~HasOr /\ AllExact)
               => controls[1] = <<ExpectedControls>>

C11_Witness ==
    /\ Decomposed
    /\ predicate.text # <<>>
    /\ ~HasOr /\ AllExact
    /\ Len(PredTerms) = 2
    /\ PredTerms[1] = BareText("q", <<"1", "0">>)
    /\ PredTerms[2] = EqText("q", <<"0">>, <<" ">>, <<" ">>, "0")
    /\ controls[1] = << << <<10, 1>>, <<0, 0>> >> >>

C11_WitnessOr ==
    /\ Decomposed
    /\ predicate.text # <<>>
    /\ HasOr
    /\ controls[1] = Unsupported

\* C12: the whole predicate is unsupported whenever one of its &&-separated
\* terms names another register or is not, in its entirety, register[index] == 0,
\* register[index] == 1 or bare register[index].
C12_BadTermUnsupported ==
    (Decomposed /\ predicate.text # <<>> /\ PredText # <<>> /\ ~AllExact)
        => controls[1] = Unsupported

C12_WitnessOtherRegister ==
    /\ Decomposed
    /\ predicate.text # <<>>
    /\ \E i \in 1..Len(PredTerms) : At(PredTerms[i], 1) = "r"
    /\ controls[1] = Unsupported

\* ------------------------------------------------ claims on the gate backend
\* the operation compile() handled last and the lines it emitted
Handled == compiled # <<>>
LastOp == compiled[Len(compiled)].op
LastLines == SubSeq(builder.op_lines, compiled[Len(compiled)].first, compiled[Len(compiled)].last)
IsComment(l) == l.gate = "//"
Unguard(l) == [l EXCEPT !.guard = <<>>]
\* the gate lines of the last operation, each without its classical guard
RECURSIVE GatesOf(_)
GatesOf(ls) ==
    IF ls = <<>> THEN <<>>
    ELSE (IF IsComment(Head(ls)) THEN <<>> ELSE <<Unguard(Head(ls))>>) \o GatesOf(Tail(ls))
LastGates == GatesOf(LastLines)
LastControls == parse_conjunctive_controls(PredOrEmpty(LastOp), LastOp.register)
Decomposes(kind, j) ==
    /\ Handled /\ LastOp.kind = kind
    /\ LastControls # <<>> /\ Len(LastControls[1]) = j
Ctrl(i) == LastControls[1][i]
Qubit(i) == Q(<<compiler.register>>, i)
XGate(i) == Gate("x", <<Qubit(i)>>)
ZeroControls == { Ctrl(i)[1] : i \in { j \in 1..Len(LastControls[1]) : Ctrl(j)[2] = 0 } }
\* ls is one x line on each qubit of the set qs and nothing else
XsOn(ls, qs) ==
    /\ Len(ls) = Cardinality(qs)
    /\ \A q \in qs : \E i \in 1..Len(ls) : ls[i] = XGate(q)
\* ls is the line core with an x on every control required at 0 before and after it
Conjugated(ls, core) ==
    \E p \in 1..Len(ls) :
        /\ ls[p] = core
        /\ XsOn(SubSeq(ls, 1, p - 1), ZeroControls)
        /\ XsOn(SubSeq(ls, p + 1, Len(ls)), ZeroControls)

\* C13: a Flip on target t with one control c emits x c, cx c,t, x c when the
\* required value is 0 and only cx c,t when it is 1; with two controls it emits
\* a ccx with an x before and after it on exactly the controls required at 0.
C13_FlipControlled ==
    /\ Decomposes("flip", 1) =>
          LET cx == Gate("cx", <<Qubit(Ctrl(1)[1]), Qubit(LastOp.targets[1])>>)
          IN  LastGates = IF Ctrl(1)[2] = 0
                          THEN <<XGate(Ctrl(1)[1]), cx, XGate(Ctrl(1)[1])>>
                          ELSE <<cx>>
    /\ Decomposes("flip", 2) =>
          Conjugated(LastGates, Gate("ccx", <<Qubit(Ctrl(1)[1]), Qubit(Ctrl(2)[1]),
                                              Qubit(LastOp.targets[1])>>))

C13_Witness ==
    /\ Decomposes("flip", 1)
    /\ Ctrl(1) = <<0, 0>>
    /\ LastOp.when # <<>>
    /\ Len(LastLines) = 3
    /\ \A i \in 1..3 : LastLines[i].guard # <<>>

C13_WitnessTwo ==
    /\ Decomposes("flip", 2)
    /\ Ctrl(1)[2] = 1 /\ Ctrl(2)[2] = 0
    /\ Len(LastLines) = 3

\* C14 (as stated): a Phase with j controls emits the direct single-qubit phase
\* instruction for j = 0, a phase instruction controlled by the one control for
\* j = 1, a phase instruction having both qubits as controls for j = 2, each
\* conjugated by x on the controls required at 0, and only a comment for j > 2.
PhaseCore(ls) == ls[CHOOSE p \in 1..Len(ls) : ls[p].gate \in {"u1", "cu1"}]
HasPhaseCore(ls) == \E p \in 1..Len(ls) : ls[p].gate \in {"u1", "cu1"}
\* the control operands of an instruction: all operands but the last, the target
ControlsOf(l) == { l.args[i] : i \in 1..(Len(l.args) - 1) }
C14_PhaseControlledForms ==
    /\ Decomposes("phase", 0) =>
          /\ Len(LastGates) = 1 /\ ControlsOf(LastGates[1]) = {}
          /\ LastGates[1].gate = "u1"
    /\ Decomposes("phase", 1) =>
          /\ HasPhaseCore(LastGates)
          /\ ControlsOf(PhaseCore(LastGates)) = {Qubit(Ctrl(1)[1])}
          /\ Conjugated(LastGates, PhaseCore(LastGates))
    /\ Decomposes("phase", 2) =>
          /\ HasPhaseCore(LastGates)
          /\ ControlsOf(PhaseCore(LastGates)) = {Qubit(Ctrl(1)[1]), Qubit(Ctrl(2)[1])}
          /\ Conjugated(LastGates, PhaseCore(LastGates))
    /\ (\E j \in 3..4 : Decomposes("phase", j)) =>
          /\ LastGates = <<>>
          /\ Len(LastLines) = 1

\* C14 (amended): j = 0 emits u1 on qubit 0; j = 1 emits the single-qubit u1 on
\* the control qubit itself; j = 2 emits the singly-controlled cu1 with the
\* first control as control and the second as target; each conjugated by x on
\* the controls required at 0; j > 2 emits only a comment.
C14_PhaseForms ==
    /\ Decomposes("phase", 0) =>
          LastGates = <<U1(LastOp.angle, Qubit(0), <<"// global phase marker">>)>>
    /\ Decomposes("phase", 1) =>
          Conjugated(LastGates, U1(LastOp.angle, Qubit(Ctrl(1)[1]), <<>>))
    /\ Decomposes("phase", 2) =>
          Conjugated(LastGates, Line(<<>>, "cu1", <<LastOp.angle>>,
                                     <<Qubit(Ctrl(1)[1]), Qubit(Ctrl(2)[1])>>, <<>>, <<>>))
    /\ (\E j \in 3..4 : Decomposes("phase", j)) =>
          /\ LastGates = <<>>
          /\ Len(LastLines) = 1

C14_Witness ==
    /\ Decomposes("phase", 2)
    /\ Ctrl(1) = <<0, 1>> /\ Ctrl(2) = <<1, 0>>
    /\ Len(LastLines) = 3

C14_WitnessOne ==
    /\ Decomposes("phase", 1)
    /\ Ctrl(1) = <<0, 0>>
    /\ Len(LastLines) = 3

C14_WitnessMany ==
    /\ Decomposes("phase", 3)
    /\ Len(LastLines) = 1

\* ------------------------------------------------------ claims on Reflect
IsMeanAxis(op) == op.axis # <<>> /\ \E i \in 1..Len(op.axis[1]) : op.axis[1][i] \in {"MEAN", "mean"}
Reflected == Handled /\ LastOp.kind = "reflect"
NQ == compiler.num_qubits
\* the multi-control synthesis of a Reflect has the controls 0..n-2 and the target n-1
K == NQ - 1
Synthesised == Reflected /\ IsMeanAxis(LastOp) /\ K >= 3
AncReg == <<"anc_", compiler.register>>
RECURSIVE Only(_, _)
Only(ls, gate) ==
    IF ls = <<>> THEN <<>>
    ELSE (IF Head(ls).gate = gate THEN <<Head(ls)>> ELSE <<>>) \o Only(Tail(ls), gate)
LastCcx == Only(LastLines, "ccx")
TargetOf(l) == l.args[Len(l.args)]

\* C15: for k >= 3 controls the synthesis declares an ancilla register of exactly
\* k-2 qubits and emits 2(k-2)+1 doubly-controlled lines, those after the one
\* applied on the target being those before it in reverse order.
C15_AncillaChainPalindrome ==
    Synthesised =>
        /\ DictHas(builder.qregs, AncReg)
        /\ DictGet(builder.qregs, AncReg) = K - 2
        /\ Len(LastCcx) = 2 * (K - 2) + 1
        /\ TargetOf(LastCcx[K - 1]) = Qubit(NQ - 1)
        /\ \A j \in 1..Len(LastCcx) : j # K - 1 => TargetOf(LastCcx[j]).reg = AncReg
        /\ \A j \in 1..(K - 2) : LastCcx[(K - 1) + j] = LastCcx[(K - 1) - j]

C15_Witness ==
    /\ Synthesised
    /\ K = 5
    /\ Len(LastCcx) = 7
    /\ LastCcx[2] # LastCcx[3]

\* the classical action of a line x, cx or ccx on a bit assignment: the last
\* operand is flipped when all the operands before it are 1
ApplyLine(bits, l) ==
    LET t == TargetOf(l)
    IN  IF \A i \in 1..(Len(l.args) - 1) : bits[l.args[i]] = 1
        THEN [bits EXCEPT ![t] = 1 - @] ELSE bits
RECURSIVE Execute(_, _)
Execute(bits, ls) == IF ls = <<>> THEN bits ELSE Execute(ApplyLine(bits, Head(ls)), Tail(ls))
RegQubits == { Qubit(i) : i \in 0..(NQ - 1) }
AncQubits(count) == { Q(AncReg, i) : i \in 0..(count - 1) }
\* every assignment of the register's qubits, with the ancillas at 0
Assignments(count) ==
    { [q \in RegQubits \cup AncQubits(count) |-> IF q \in RegQubits THEN a[q] ELSE 0] :
        a \in [RegQubits -> {0, 1}] }
\* ls acts as a NOT on `target` controlled by all of `ctrls`, ancillas restored
IsMultiControlX(ls, ctrls, target, count) ==
    \A bits \in Assignments(count) :
        LET out == Execute(bits, ls)
        IN  /\ \A q \in AncQubits(count) : out[q] = 0
            /\ \A c \in ctrls : out[c] = bits[c]
            /\ out[target] = IF \A c \in ctrls : bits[c] = 1
                             THEN 1 - bits[target] ELSE bits[target]

\* C16: for k >= 3 and every assignment of bits to the controls and the target,
\* ancillas at 0, executing the emitted ccx lines in order leaves the ancillas at
\* 0 and the controls unchanged, and flips the target exactly when all controls are 1.
C16_AncillasRestored ==
    Synthesised =>
        IsMultiControlX(LastCcx, { Qubit(i) : i \in 0..(K - 1) }, Qubit(NQ - 1), K - 2)

C16_Witness ==
    /\ Synthesised
    /\ K = 5
    /\ \E bits \in Assignments(K - 2) :
          /\ \A i \in 0..(K - 1) : bits[Qubit(i)] = 1
          /\ Execute(bits, SubSeq(LastCcx, 1, K - 2))[Q(AncReg, K - 3)] = 1
          /\ Execute(bits, LastCcx)[Qubit(NQ - 1)] = 1 - bits[Qubit(NQ - 1)]

\* C17: a Reflect about the mean on n qubits emits h on 0..n-1, x on 0..n-1, a
\* multi-controlled Z with controls 0..n-2 and target n-1, x on 0..n-1, h on
\* 0..n-1; any other axis emits exactly one comment and no gate.
Range(gate) == [i \in 1..NQ |-> Gate(gate, <<Qubit(i - 1)>>)]
\* a multi-controlled Z on the target: z alone, or a multi-controlled X between two h
IsMultiControlZ(ls, ctrls, target, count) ==
    IF ctrls = {} THEN ls = <<Gate("z", <<target>>)>>
    ELSE /\ Len(ls) >= 3
         /\ ls[1] = Gate("h", <<target>>) /\ ls[Len(ls)] = Gate("h", <<target>>)
         /\ \A i \in 2..(Len(ls) - 1) : ls[i].gate \in {"x", "cx", "ccx"}
         /\ IsMultiControlX(SubSeq(ls, 2, Len(ls) - 1), ctrls, target, count)
C17_ReflectDiffusion ==
    /\ (Reflected /\ IsMeanAxis(LastOp)) =>
          /\ Len(LastLines) >= 4 * NQ + 1
          /\ SubSeq(LastLines, 1, 2 * NQ) = Range("h") \o Range("x")
          /\ SubSeq(LastLines, Len(LastLines) - 2 * NQ + 1, Len(LastLines))
                = Range("x") \o Range("h")
          /\ IsMultiControlZ(SubSeq(LastLines, 2 * NQ + 1, Len(LastLines) - 2 * NQ),
                             { Qubit(i) : i \in 0..(NQ - 2) }, Qubit(NQ - 1),
                             IF K >= 3 THEN K - 2 ELSE 0)
    /\ (Reflected /\ ~IsMeanAxis(LastOp)) =>
          /\ Len(LastLines) = 1
          /\ IsComment(LastLines[1])

C17_Witness ==
    /\ Reflected /\ IsMeanAxis(LastOp)
    /\ NQ = 4
    /\ Len(LastLines) = 4 * NQ + 5

C17_WitnessOtherAxis ==
    /\ Reflected /\ ~IsMeanAxis(LastOp)
    /\ Len(LastLines) = 1

\* ------------------------------------------------- claims on the when wrapper
\* the wrapper ran for the last operation with a non-empty when
WhenGiven ==
    /\ Handled /\ LastOp.kind \in {"flip", "phase"} /\ LastControls # <<>>
    /\ LastOp.when # <<>> /\ LastOp.when[1] # <<>>
WhenText == Strip(LastOp.when[1])
\* name == 0 and name == 1, the blanks around == optional
ExactWhens ==
    { <<nm>> \o s1 \o <<"==">> \o s2 \o <<v>> :
        nm \in {"c", "d"}, s1 \in {<<>>, <<" ">>}, s2 \in {<<>>, <<" ">>}, v \in {"0", "1"} }
WhenCond == [name |-> <<WhenText[1]>>, val |-> IntOf(<<WhenText[Len(WhenText)]>>)]

\* C18: gate lines are wrapped in a conditional only when the trimmed when is
\* exactly name == 0 or name == 1 (then every line is wrapped and name is a
\* declared classical register, of 1 bit when the wrapper declared it); for any
\* other non-empty when there is one comment, then the gate lines unwrapped.
C18_WhenExactOnly ==
    WhenGiven =>
        IF WhenText \in ExactWhens
        THEN /\ \A i \in 1..Len(LastLines) :
                    ~IsComment(LastLines[i]) /\ LastLines[i].guard = <<WhenCond>>
             /\ DictHas(builder.cregs, WhenCond.name)
             /\ Len(compiled) = 1 => DictGet(builder.cregs, WhenCond.name) = 1
        ELSE /\ Len(LastLines) >= 2
             /\ IsComment(LastLines[1])
             /\ \A i \in 2..Len(LastLines) :
                    ~IsComment(LastLines[i]) /\ LastLines[i].guard = <<>>

\* -------------------------------------------------- claims on measurements
MeasureLines == { i \in 1..Len(builder.op_lines) : builder.op_lines[i].gate = "measure" }
RegisterWide(l) == l.args[1].idx = ALL
DestName(l) == l.dest[1].reg

\* C19: after any sequence of operations of one compiler every register-wide
\* measurement line names a classical register declared with the register's
\* full qubit width, and every single-qubit measurement line names a declared
\* classical register, also when a when guard or a measurement declared it first.
C19_MeasureDestinationSized ==
    \A i \in MeasureLines :
        LET l == builder.op_lines[i]
        IN  /\ DictHas(builder.cregs, DestName(l))
            /\ RegisterWide(l) => DictGet(builder.cregs, DestName(l)) = compiler.num_qubits

\* ------------------------------------------ claims on non-lowerable operations
CommentKinds ==
    {"analog", "align", "branch", "rotate", "wait", "shiftphase", "setfreq", "play", "acquire"}
HandlerKinds == CommentKinds \cup {"superpose", "phase", "flip", "reflect", "measure"}
\* sub occurs in text as a run of consecutive lexemes
Contains(text, sub) ==
    \E i \in 0..(Len(text) - Len(sub)) : SubSeq(text, i + 1, i + Len(sub)) = sub
OneComment == Len(LastLines) = 1 /\ IsComment(LastLines[1])

\* C20: every analog, align, branch, rotate, wait, shiftphase, setfreq, play and
\* acquire operation emits exactly one line, a comment that contains the
\* operation's original source text; a kind with no handler emits exactly one
\* generic unsupported comment; compilation goes on in every case.
C20_CommentKeepsSource ==
    Handled =>
        /\ LastOp.kind \in CommentKinds =>
              OneComment /\ Contains(LastLines[1].text, LastOp.raw)
        /\ LastOp.kind \notin HandlerKinds =>
              /\ OneComment
              /\ LastLines[1].text = <<"// TODO: unsupported op ", LastOp.kind, ": ">> \o LastOp.raw
        /\ pc = "compiling" \/ (pc = "rendered" /\ qasm # <<>>)

\* ------------------------------------------------- claims on the simulator
Calls == run[1].calls
Returned == run # <<>> /\ run[1].returned # <<>>
EventCalls == { i \in 1..Len(Calls) : Calls[i].fn = "on_event" }
Count(seq, e) == Cardinality({ i \in 1..Len(seq) : seq[i] = e })
SameEvents(a, b) == \A e \in ReplayEvents : Count(a, e) = Count(b, e)
\* x comes strictly before y in the order (start time, register, target index)
Before(x, y) ==
    \/ TLess(x.start_ns, y.start_ns)
    \/ /\ x.start_ns = y.start_ns
       /\ \/ RegRank(x.register) < RegRank(y.register)
          \/ /\ x.register = y.register
             /\ x.target # <<>> /\ y.target # <<>>
             /\ x.target[1] < y.target[1]

\* C21: run(schedule) calls on_start exactly once, then on_event exactly once
\* per event of the schedule in the order (start time, register, target index),
\* then on_finish exactly once, nothing else in between, and returns what
\* on_finish returned.
C21_ReplayProtocol ==
    run # <<>> =>
        LET es == run[1].schedule.events
            n == Len(Calls)
        IN  /\ Calls[1] = Call("on_start", <<run[1].schedule>>, <<>>)
            /\ \A i \in 2..n : Calls[i].fn # "on_start"
            /\ \A i \in 1..n : Calls[i].fn = "on_finish" => i = n /\ Returned
            /\ \A i \in EventCalls : Count(es, Calls[i].arg[1]) =
                  Cardinality({ j \in EventCalls : Calls[j].arg = Calls[i].arg })
                  \/ ~Returned
            /\ \A i \in EventCalls :
                  Cardinality({ j \in EventCalls : Calls[j].arg = Calls[i].arg })
                     <= Count(es, Calls[i].arg[1])
            /\ \A i, j \in EventCalls : i < j => ~Before(Calls[j].arg[1], Calls[i].arg[1])
            /\ Returned =>
                  /\ n = Len(es) + 2
                  /\ Calls[n].fn = "on_finish"
                  /\ Calls[n].arg = <<run[1].schedule>>
                  /\ run[1].returned = Calls[n].ret

C21_Witness ==
    /\ Returned
    /\ Len(run[1].schedule.events) = 2
    /\ Before(run[1].schedule.events[2], run[1].schedule.events[1])
    /\ Len(Calls) = 4

\* C27: after any sequence of runs that reuse one LoggingPulseBackend, the
\* summary of each run has event_count equal to the number of events of the
\* schedule replayed in that run, and the backend's collected events are
\* exactly that schedule's events.
C27_SummaryPerRun ==
    Returned =>
        /\ run[1].returned[1].event_count = Len(run[1].schedule.events)
        /\ Len(backend[1].events) = Len(run[1].schedule.events)
        /\ SameEvents(backend[1].events, run[1].schedule.events)

\* ------------------------------------------------- claims on duration texts
DurationParsed == parsedDuration # <<>> /\ pc = "parsed duration"
Given == durationText.parts[1]
HasNumber == durationText.parts # <<>> /\ (Given.whole # <<>> \/ Given.frac # <<>>)
GivenNumber ==
    Dec((IF Given.sign = "-" THEN -1 ELSE 1) * NatOf(Given.whole \o Given.frac),
        (IF Given.expo = <<>> THEN 0
         ELSE IF Given.expo[2] = "-" THEN -NatOf(Tail(Tail(Given.expo)))
         ELSE NatOf(Tail(Given.expo))) - Len(Given.frac))
\* the recognised units, in either case, and their multipliers in nanoseconds
Multipliers ==
    { <<"s", Dec(1, 9)>>, <<"ms", Dec(1, 6)>>, <<"us", Dec(1, 3)>>, <<"ns", Dec(1, 0)>>,
      <<"ps", Dec(1, -3)>>, <<"fs", Dec(1, -6)>>, <<"dt", Dec(1, 0)>>,
      <<"S", Dec(1, 9)>>, <<"MS", Dec(1, 6)>>, <<"US", Dec(1, 3)>>, <<"NS", Dec(1, 0)>>,
      <<"PS", Dec(1, -3)>>, <<"FS", Dec(1, -6)>>, <<"DT", Dec(1, 0)>> }
Recognised_(word) == \E u \in Multipliers : u[1] = word
MultiplierOf(word) == (CHOOSE u \in Multipliers : u[1] = word)[2]

\* C22: a leading number followed by a recognised unit (in either case) gives
\* the number times the unit's multiplier in nanoseconds, a number with no unit
\* gives that many nanoseconds, and an absent or unparsable text gives 0.
C22_DurationParsing ==
    DurationParsed =>
        parsedDuration[1] =
            IF ~HasNumber THEN Dec(0, 0)
            ELSE IF Given.word = "" THEN GivenNumber
            ELSE IF Recognised_(Given.word) THEN DecTimes(GivenNumber, MultiplierOf(Given.word))
            ELSE Dec(0, 0)

\* ------------------------------------------- claims on the scheduler's walk
Walked == pc = "walked" /\ walked # <<>>
Unfiltered == scheduler[1].register_filter = ""
IsPulse(s) == s.text.ctl = "" /\ s.text.body.head \in PulseHeads
IsAlign(s) == s.text.ctl = "" /\ s.text.body.head = "Align"
Paths == PreOrderFrom(statements, 1, <<>>)
Parent(path) == Anc(path, Len(path) - 1)

\* how long a clause, a block and an Align block last: a pulse clause lasts its
\* duration, an Align as long as the longest of its children's bodies (0 with no
\* child), any other clause as long as its children one after the other
RECURSIVE Lasts(_)
RECURSIVE LastsAll(_)
RECURSIVE Longest(_)
Lasts(s) ==
    IF IsPulse(s) THEN DurationOf(s)
    ELSE IF IsAlign(s)
         THEN (IF s.children = <<>> THEN T(0) ELSE Longest(s.children))
    ELSE LastsAll(s.children)
LastsAll(stmts) ==
    IF stmts = <<>> THEN T(0) ELSE TAdd(Lasts(Head(stmts)), LastsAll(Tail(stmts)))
Longest(branches) ==
    IF Len(branches) = 1 THEN LastsAll(branches[1].children)
    ELSE TMax(LastsAll(branches[1].children), Longest(Tail(branches)))

\* the cursor at which the clause at a path is walked: a child of an Align at the
\* cursor of the Align, any other clause where the sibling before it ended
RECURSIVE CursorAt(_)
CursorAt(path) ==
    LET i == path[Len(path)]
    IN  IF Len(path) = 1
        THEN TAdd(walked[1].start_time, LastsAll(SubSeq(statements, 1, i - 1)))
        ELSE IF IsAlign(StmtAt(statements, Parent(path))) THEN CursorAt(Parent(path))
        ELSE TAdd(CursorAt(Parent(path)),
                  LastsAll(SubSeq(StmtAt(statements, Parent(path)).children, 1, i - 1)))

\* the pulse clauses the walk comes to: not below another pulse clause and not
\* themselves in the place of a branch
Scheduled(path) ==
    /\ IsPulse(StmtAt(statements, path))
    /\ \A n \in 1..(Len(path) - 1) : ~IsPulse(StmtAt(statements, Anc(path, n)))
    /\ Len(path) > 1 => ~IsAlign(StmtAt(statements, Parent(path)))
ScheduledPaths == SelectSeq(Paths, Scheduled)
AlignPaths == { k \in 1..Len(Paths) : IsAlign(StmtAt(statements, Paths[k])) }

\* C23: the children of an Align walked at cursor t0 all start at t0, whatever the
\* children before them last; the Align lasts the maximum of its children's
\* durations (0 with no child), and the clause after it starts at t0 plus that
\* maximum.
C23_AlignBranchesParallel ==
    Walked =>
        /\ walked[1].duration = LastsAll(statements)
        /\ Unfiltered =>
              /\ Len(walked[1].events) = Len(ScheduledPaths)
              /\ \A k \in 1..Len(ScheduledPaths) :
                    walked[1].events[k].start_ns = CursorAt(ScheduledPaths[k])

C23_Witness ==
    /\ Walked
    /\ Unfiltered
    /\ walked[1].start_time = T(7)
    /\ Len(statements) = 3
    /\ IsAlign(statements[2])
    /\ Len(statements[2].children) = 2
    /\ LastsAll(statements[2].children[1].children) = T(15)
    /\ LastsAll(statements[2].children[2].children) = T(25)
    /\ Len(walked[1].events) = 5
    /\ walked[1].events[2].start_ns = T(12)
    /\ walked[1].events[4].start_ns = T(12)
    /\ walked[1].events[5].start_ns = T(37)
    /\ walked[1].duration = T(50)

\* the branch clauses around the clause at a path, and the innermost one's label
BranchesAround(path) == AncestorsWith(path, "branch")
InnermostBranch(path) == Text(Anc(path, Deepest(BranchesAround(path)))).body.ref

\* C24: every event produced in the subtree of a branch clause carries that
\* branch's label, also below an Analog or another wrapper inside the branch, and
\* every event produced outside any branch carries no label.
C24_BranchLabel ==
    (Walked /\ Unfiltered) =>
        \A k \in 1..Len(ScheduledPaths) :
            LET p == ScheduledPaths[k]
            IN  walked[1].events[k].branch =
                    IF BranchesAround(p) = {} THEN <<>> ELSE <<InnermostBranch(p)>>

\* the walk of the same tree from the same cursor by a scheduler without filter
UnfilteredWalk ==
    _compile_block([scheduler[1] EXCEPT !.register_filter = ""], statements,
                   scheduler[1].default_register, "logic", <<>>,
                   walked[1].start_time, <<>>)
Passes(e) == Unfiltered \/ e.register = scheduler[1].register_filter
PulsePaths == SelectSeq(Paths, LAMBDA p : IsPulse(StmtAt(statements, p)))
\* no Align in the tree, and every pulse clause is a clause without a block
PlainBlock ==
    \A k \in 1..Len(Paths) :
        LET s == StmtAt(statements, Paths[k])
        IN  ~IsAlign(s) /\ (IsPulse(s) => s.children = <<>>)
RECURSIVE SumBefore(_)
SumBefore(k) ==
    IF k = 0 THEN T(0)
    ELSE TAdd(SumBefore(k - 1), DurationOf(StmtAt(statements, PulsePaths[k])))

PulseOps == SelectSeq(operations, LAMBDA op : op.kind \in PULSE_KINDS)

\* C26: on every statement tree the walk of the scheduler without register filter
\* yields one event per pulse operation the resolver yields, in the same order and
\* with the same register and target, wherever the pulse clause sits: at top
\* level, inside Analog, inside a branch or directly under Align.
C26_ResolverSchedulerAgree ==
    (Walked /\ Unfiltered) =>
        /\ Len(walked[1].events) = Len(PulseOps)
        /\ \A k \in 1..Len(PulseOps) :
              k <= Len(walked[1].events) =>
                  /\ walked[1].events[k].kind = PulseOps[k].kind
                  /\ walked[1].events[k].register = PulseOps[k].register
                  /\ walked[1].events[k].target = PulseOps[k].targets

NotBefore(a, b) == ~TLess(a, b)
NoAlign == AlignPaths = {}

\* C28: the time cursor of the walk never moves backwards: every event has a start
\* time and a duration of at least 0, the block reports a duration of at least 0,
\* and in a sequential block a later event never starts before an earlier one.
C28_CursorMonotone ==
    Walked =>
        /\ \A k \in 1..Len(walked[1].events) :
              /\ NotBefore(walked[1].events[k].start_ns, T(0))
              /\ NotBefore(walked[1].events[k].duration_ns, T(0))
        /\ NotBefore(walked[1].duration, T(0))
        /\ NoAlign =>
              \A j, k \in 1..Len(walked[1].events) :
                  j < k => NotBefore(walked[1].events[k].start_ns,
                                     walked[1].events[j].start_ns)

\* ------------------------------------------ claims on the resolver, continued
\* the branches of an Align around operation k's clause, innermost last, and the
\* Analog blocks around it
AlignBranches(k) ==
    { n \in AncestorsWith(opPaths[k], "branch") :
        n > 1 /\ Head_(Anc(opPaths[k], n - 1)) = "Align" }
\* operation k comes from a clause without explicit target in a branch R[i] of an
\* Align block with no Analog block between the branch and the clause
InBranchInnermost(k) ==
    /\ Text(opPaths[k]).body.ref = NoRef
    /\ AlignBranches(k) # {}
    /\ Text(Anc(opPaths[k], Deepest(AlignBranches(k)))).body.ref.idx # <<>>
    /\ \A n \in AncestorsWith(opPaths[k], "Analog") : n < Deepest(AlignBranches(k))

\* C30: a pulse operation resolved in the subtree of branch R[i], with no Analog
\* block between the branch and the clause, has register R, also when the Align
\* block lies inside an Analog block of another register or index.
C30_BranchRegister ==
    \A k \in OpIndices :
        (operations[k].kind \in PULSE_KINDS /\ InBranchInnermost(k))
        => operations[k].register = BranchRef(k).name

\* ------------------------------------------- claims on the statement tree
Gathered == pc = "gathered"
\* the clauses of the source in document order, as positions in the token list,
\* and the brace depth each one stands at
ClausePositions == SelectSeq([i \in 1..Len(tokens) |-> i], LAMBDA i : tokens[i].ctl = "")
DepthAt(i) == Depths(tokens, 0)[i]
Empty(text) == text.ctl = "" /\ text.body = <<>>

\* C29: for a source with balanced braces the pre-order traversal of the tree is
\* the list of the non-empty clauses in document order, each once and at its
\* brace depth, and no Statement has an empty text or one of `;`, `{`, `}` as
\* text, also for a block opened without a header clause.
C29_ClausesAreStatements ==
    (Gathered /\ BracesBalance(tokens)) =>
        /\ Len(Paths) = Len(ClausePositions)
        /\ \A k \in 1..Len(Paths) :
              /\ Text(Paths[k]).ctl = ""
              /\ ~Empty(Text(Paths[k]))
              /\ k <= Len(ClausePositions) =>
                    /\ Text(Paths[k]) = tokens[ClausePositions[k]]
                    /\ Len(Paths[k]) - 1 = DepthAt(ClausePositions[k])

====
